---- MODULE Spec2Model ----
(***************************************************************************)
(* Drilling-data analysis pipeline (crewai_test.py): the two batch entry   *)
(* points run_analysis and run_analysis_api, the result parsers and the    *)
(* two summary formatters.                                                 *)
(*                                                                         *)
(* Representation of text.  A Python str is modelled as a sequence of      *)
(* tokens: a word, a blank (" "), a line break ("\n"), a hyphen, a comma,  *)
(* a bracket.  A column name is a str too, i.e. a sequence of tokens       *)
(* (usually one word).                                                     *)
(***************************************************************************)
EXTENDS Integers, Sequences, FiniteSets, TLC

(***************************************************************************)
(* Bounds of the model.                                                    *)
(***************************************************************************)
\* largest number of CSV files in the input directory
MaxFiles == 2

\* the largest record list handed to the summary formatters
MaxRecords == 2

(***************************************************************************)
(* Column names and the CSV files of a batch.                              *)
(***************************************************************************)
DHID    == <<"DHID">>
XCOLLAR == <<"XCOLLAR">>
YCOLLAR == <<"YCOLLAR">>
ZCOLLAR == <<"ZCOLLAR">>
ATcol   == <<"AT">>
DIPcol  == <<"DIP">>
BRG     == <<"BRG">>

\* a file pandas cannot read
Malformed == <<"<malformed>">>

\* what a file of the batch can hold: its header row, or nothing readable
CsvChoices ==
  { <<Malformed>>,
    <<DHID, XCOLLAR, YCOLLAR, ZCOLLAR>>,
    <<DHID, ATcol, DIPcol, BRG>> }

\* analyze_csv_structure: the fingerprint of a file, or an error marker
analyze_csv_structure(key, content) ==
  IF content = <<Malformed>>
    THEN [error |-> "read_csv failed"]
    ELSE [filename |-> key, columns |-> content]

(***************************************************************************)
(* Tokens.  A word token is a maximal run of \w characters; every blank,   *)
(* line break and punctuation character is a token of its own.  The texts  *)
(* the model draws never hold two adjacent word tokens, so a token         *)
(* boundary is exactly where the regular expressions of the source can     *)
(* stop.                                                                   *)
(***************************************************************************)
SP == " "
NL == "\n"

\* \s
IsWs(t) == t \in {SP, NL}

\* characters that are neither \w nor \s
PunctTokens == {"-", ",", "[", "]", "(", ")", "=", ":", ".", "'", "\"", "/"}

\* \w+
IsWord(t) == ~IsWs(t) /\ t \notin PunctTokens

\* the tokens of the model that are not already upper case, with their
\* upper-case form
CasePairs ==
  {
    <<"Collar", "COLLAR">>, <<"collar", "COLLAR">>, <<"Survey", "SURVEY">>,
    <<"survey", "SURVEY">>, <<"Assay", "ASSAY">>, <<"assay", "ASSAY">>,
    <<"Lithology", "LITHOLOGY">>, <<"lithology", "LITHOLOGY">>, <<"Density", "DENSITY">>,
    <<"density", "DENSITY">>, <<"File", "FILE">>, <<"file", "FILE">>,
    <<"Type", "TYPE">>, <<"type", "TYPE">>, <<"Hole", "HOLE">>,
    <<"hole", "HOLE">>, <<"Name", "NAME">>, <<"name", "NAME">>,
    <<"Not", "NOT">>, <<"not", "NOT">>, <<"Found", "FOUND">>,
    <<"found", "FOUND">>, <<"Dip", "DIP">>, <<"dip", "DIP">>,
    <<"Azimuth", "AZIMUTH">>, <<"azimuth", "AZIMUTH">>, <<"Depth", "DEPTH">>,
    <<"depth", "DEPTH">>, <<"Coordinates", "COORDINATES">>, <<"coordinates", "COORDINATES">>,
    <<"Error", "ERROR">>, <<"error", "ERROR">>, <<"identifying", "IDENTIFYING">>,
    <<"validating", "VALIDATING">>, <<"columns", "COLUMNS">>, <<"Task", "TASK">>,
    <<"failed", "FAILED">>, <<"confidence", "CONFIDENCE">>, <<"high", "HIGH">>,
    <<"unique", "UNIQUE">>, <<"repeated", "REPEATED">>, <<"utm", "UTM">>,
    <<"ok", "OK">>, <<"None", "NONE">>, <<"x", "X">>,
    <<"y", "Y">>, <<"z", "Z">> }

UpperTable == [t \in {p[1] : p \in CasePairs} |-> (CHOOSE p \in CasePairs : p[1] = t)[2]]

\* str.upper() / re.IGNORECASE on one token
Upper(t) == IF t \in DOMAIN UpperTable THEN UpperTable[t] ELSE t

\* str.upper() / str.lower() on a whole text (compared case-insensitively)
UpperSeq(s) == [k \in 1..Len(s) |-> Upper(s[k])]

\* word tokens that end with a shorter word the source searches for
ProperSuffix ==
  { <<"BULK_DENSITY", "DENSITY">>, <<"PROFILE", "FILE">>, <<"MAX", "X">> }

\* the token ends with the characters of word w (case-insensitively)
EndsWith(t, w) == Upper(t) = Upper(w) \/ <<Upper(t), Upper(w)>> \in ProperSuffix

\* the known type names a word token contains as a substring
ContainsType(t, name) ==
  \/ Upper(t) = Upper(name)
  \/ <<Upper(t), Upper(name)>> \in
       { <<"LITHOLOGY_CODE", "LITHOLOGY">>, <<"BULK_DENSITY", "DENSITY">>,
         <<"COLLARS", "COLLAR">>, <<"ASSAYS", "ASSAY">>, <<"SURVEYS", "SURVEY">>,
         <<"XCOLLAR", "COLLAR">>, <<"YCOLLAR", "COLLAR">>, <<"ZCOLLAR", "COLLAR">> }

\* "FOUND" in token.upper()
ContainsFOUND(t) == Upper(t) \in {"FOUND", "NOTFOUND", "NOT_FOUND", "UNFOUND"}

Min(S) == CHOOSE x \in S : \A y \in S : x <= y

\* the literal lit (a token sequence) occurs in text at position i; like the
\* character-level search it may begin inside a longer word
MatchLit(text, i, lit) ==
  /\ i >= 1
  /\ i + Len(lit) - 1 <= Len(text)
  /\ EndsWith(text[i], lit[1])
  /\ \A k \in 2..Len(lit) : Upper(text[i + k - 1]) = Upper(lit[k])

\* \s* from position i: the first position that holds no white space
SkipWs(text, i) ==
  Min({j \in i..(Len(text) + 1) : j = Len(text) + 1 \/ ~IsWs(text[j])})

\* a greedy character class from position i: the first position at or after i
\* whose token is in stop
RunStop(text, i, stop) ==
  Min({j \in i..(Len(text) + 1) : j = Len(text) + 1 \/ text[j] \in stop \/ IsWs(text[j])})

\* str.strip()
Strip(s) ==
  LET keep == {k \in 1..Len(s) : ~IsWs(s[k])}
  IN  IF keep = {} THEN <<>>
      ELSE SubSeq(s, Min(keep), CHOOSE k \in keep : \A j \in keep : j <= k)

\* Python's None where a str is expected
PyNone == <<"<None>">>

\* str(v)
Str(v) == IF v = PyNone THEN <<"None">> ELSE v

\* bool(v) of a str or None
Truthy(v) == v # PyNone /\ v # <<>>

(***************************************************************************)
(* extract_file_type_from_result                                           *)
(***************************************************************************)
\* the type names with Density moved to the front of the scan
KnownTypesDensityFirst == <<"Density", "Collar", "Survey", "Assay", "Lithology">>

\* the five type names of the catalog and of the formatter's table
KnownTypes == <<"Collar", "Survey", "Assay", "Lithology", "Density">>

L_FILE_TYPE == <<"FILE", SP, "TYPE", ":">>

\* re.search(r'FILE TYPE:\s*(\w+)', s, re.IGNORECASE), then the scan of
\* known_types in list order
extract_file_type_from_result(s) ==
  IF s = <<>> \/ s = PyNone THEN PyNone
  ELSE
    LET hits == {i \in 1..Len(s) :
                   /\ MatchLit(s, i, L_FILE_TYPE)
                   /\ LET w == SkipWs(s, i + Len(L_FILE_TYPE))
                      IN  w <= Len(s) /\ IsWord(s[w])}
    IN  IF hits # {}
          THEN LET w == SkipWs(s, Min(hits) + Len(L_FILE_TYPE))
                   e == Min({j \in w..(Len(s) + 1) : j = Len(s) + 1 \/ ~IsWord(s[j])})
               IN  SubSeq(s, w, e - 1)
          ELSE LET found == {k \in 1..Len(KnownTypes) :
                               \E i \in 1..Len(s) : ContainsType(s[i], KnownTypes[k])}
               IN  IF found = {} THEN PyNone ELSE <<KnownTypes[Min(found)]>>

(***************************************************************************)
(* Python values that are not text.                                        *)
(***************************************************************************)
\* a local variable that no assignment has bound yet
Unbound == <<"<unbound>">>

\* load_heuristics() returned None
NoHeuristics == [loaded |-> FALSE]

\* load_heuristics() returned the catalog: type name -> required column kinds
HeuristicsCatalog ==
  [loaded |-> TRUE,
   file_types |->
     [t \in {KnownTypes[k] : k \in 1..Len(KnownTypes)} |->
        CASE t = "Collar"    -> {"hole_id", "coordinates"}
          [] t = "Survey"    -> {"hole_id", "dip", "azimuth", "depth"}
          [] t = "Assay"     -> {"hole_id", "depth_intervals", "element_columns"}
          [] t = "Lithology" -> {"hole_id", "depth_intervals", "lithology_code"}
          [] OTHER           -> {"hole_id", "depth_intervals", "density"}]]

(***************************************************************************)
(* parse_column_identification_result                                      *)
(***************************************************************************)
L_HOLE_NAME   == <<"HOLE", SP, "NAME", ":">>
L_COORDINATES == <<"COORDINATES", ":">>
L_DIP         == <<"DIP", ":">>
L_AZIMUTH     == <<"AZIMUTH", ":">>
L_GRADES      == <<"GRADE", SP, "COLUMNS", ":">>
L_INTERVALS   == <<"DEPTH", SP, "INTERVALS", ":">>
L_DENSITY     == <<"DENSITY", ":">>
L_LITHOLOGY   == <<"LITHOLOGY", SP, "CODE", ":">>
L_DEPTH_AT    == <<"DEPTH", SP, "(", "AT", ")", ":">>

\* positions where re.search(r'<LABEL>:\s*([^\s(]+)') can match
SingleHits(s, lit) ==
  {i \in 1..Len(s) :
     /\ MatchLit(s, i, lit)
     /\ LET w == SkipWs(s, i + Len(lit))
        IN  w <= Len(s) /\ s[w] # "("}

\* a test of the captured token that looks for the whole phrase 'NOT FOUND'
IsNotThePhraseNotFound(name) ==
  ~\E k \in 1..(Len(name) - 2) :
      Upper(name[k]) = "NOT" /\ name[k + 1] = SP /\ Upper(name[k + 2]) = "FOUND"

\* name.upper() != "NOT" and "FOUND" not in name.upper()
IsColumnName(name) ==
  /\ UpperSeq(name) # <<"NOT">>
  /\ \A k \in 1..Len(name) : ~ContainsFOUND(name[k])

\* re.search(r'<LABEL>:.*?-\s*(.+?)(?:\n|$)', s, IGNORECASE | DOTALL): the
\* positions of a hyphen that follows the first occurrence of the label and
\* has at least one character after it
CommentHyphens(s, labelEnds) ==
  IF labelEnds = {} THEN {}
  ELSE {h \in Min(labelEnds)..(Len(s) - 1) : s[h] = "-"}

\* group(1).strip() of that search: from the first text after the hyphen to
\* the end of the line that text is on
CommentAfter(s, h) ==
  LET q == SkipWs(s, h + 1)
  IN  IF q > Len(s) THEN <<>>
      ELSE LET e == Min({j \in q..(Len(s) + 1) : j = Len(s) + 1 \/ s[j] = NL})
           IN  Strip(SubSeq(s, q, e - 1))

\* ends of the occurrences of a label
LabelEnds(s, lit) == {i + Len(lit) : i \in {j \in 1..Len(s) : MatchLit(s, j, lit)}}

\* has the comment search a match, and what it captures
HasComment(s, ends) == CommentHyphens(s, ends) # {}

Comment(s, ends) == CommentAfter(s, Min(CommentHyphens(s, ends)))

\* one single-value slot: lines 732-741, 766-784, 812-830
ParseSingle(s, lit) ==
  LET hits == SingleHits(s, lit)
      w    == SkipWs(s, Min(hits) + Len(lit))
      name == SubSeq(s, w, RunStop(s, w, {"("}) - 1)
      ends == LabelEnds(s, lit)
  IN  IF hits # {} /\ IsColumnName(name)
        THEN [found   |-> name,
              comment |-> IF HasComment(s, ends) THEN Comment(s, ends) ELSE <<>>]
        ELSE [found |-> PyNone, comment |-> <<>>]

\* some word of the text equals w, case-insensitively: re.search(r'\bw\b')
HasWord(s, w) == \E i \in 1..Len(s) : Upper(s[i]) = w

\* the first pattern of a list that occurs in the text as a whole word
FirstWord(s, patterns) ==
  LET hit == {k \in 1..Len(patterns) : HasWord(s, patterns[k])}
  IN  IF hit = {} THEN PyNone ELSE <<patterns[Min(hit)]>>

\* a compound pattern  <LABEL>:.*?K1=(run1),?\s*K2=(run2)...  on one line
KeyAt(s, p, key) == MatchLit(s, p, <<key, "=">>)

\* the ends (exclusive) a greedy class can take for the run that starts at q:
\* every non-empty prefix of the maximal run, as back-tracking gives them up
RunEnds(s, q, stop) == (q + 1)..RunStop(s, q, stop)

\* where the next key has to start when the run after key p ends at e: after
\* the maximal run comes ",?\s*"; inside the run the key follows at once
NextKeyPos(s, e, stop) ==
  IF e <= Len(s) /\ ~IsWs(s[e]) /\ s[e] \notin stop /\ s[e] # ","
    THEN e
    ELSE SkipWs(s, IF e <= Len(s) /\ s[e] = "," THEN e + 1 ELSE e)

\* a key that must match from its first letter
ExactKeyAt(s, p, key) ==
  /\ p + 1 <= Len(s)
  /\ Upper(s[p]) = key
  /\ s[p + 1] = "="

\* start positions of the first key, on the line of a label that ends at b
FirstKeyStarts(s, b, key) ==
  {p \in b..Len(s) : KeyAt(s, p, key) /\ \A j \in b..(p - 1) : s[j] # NL}

\* the match the regex engine reports among the candidates <<label end, first
\* key, end of run 1, end of run 2>>: leftmost label, lazy ".*?", greedy runs
Preferred(M) ==
  CHOOSE m \in M : \A n \in M :
    \/ m[1] < n[1]
    \/ m[1] = n[1] /\ m[2] < n[2]
    \/ m[1] = n[1] /\ m[2] = n[2] /\ m[3] > n[3]
    \/ m[1] = n[1] /\ m[2] = n[2] /\ m[3] = n[3] /\ m[4] >= n[4]

CoordStops == {",", "="}

\* re.search(r'COORDINATES:.*?X=([^\s,=]+),?\s*Y=([^\s,=]+),?\s*Z=([^\s(,=]+)')
CoordMatches(s) ==
  UNION { UNION { UNION { { <<b, px, e1, e2>> :
                e2 \in {e \in RunEnds(s, NextKeyPos(s, e1, CoordStops) + 2, CoordStops) :
                          LET pz == NextKeyPos(s, e, CoordStops)
                          IN  /\ ExactKeyAt(s, pz, "Z")
                              /\ RunStop(s, pz + 2, CoordStops \cup {"("}) > pz + 2} } :
              e1 \in {e \in RunEnds(s, px + 2, CoordStops) :
                        ExactKeyAt(s, NextKeyPos(s, e, CoordStops), "Y")} } :
            px \in FirstKeyStarts(s, b, "X") } :
          b \in LabelEnds(s, L_COORDINATES) }

coord_patterns ==
  [x |-> <<"XCOLLAR", "X", "EAST", "EASTING", "X_UTM", "XCOORD">>,
   y |-> <<"YCOLLAR", "Y", "NORTH", "NORTHING", "Y_UTM", "YCOORD">>,
   z |-> <<"ZCOLLAR", "Z", "ELEV", "ELEVATION", "RL", "Z_UTM", "ZCOORD">>]

\* lines 743-764
ParseCoordinates(s) ==
  LET M == CoordMatches(s)
  IN
  IF M # {}
    THEN LET m  == Preferred(M)
             ends == LabelEnds(s, L_COORDINATES)
             py == NextKeyPos(s, m[3], CoordStops)
             pz == NextKeyPos(s, m[4], CoordStops)
         IN  [x |-> SubSeq(s, m[2] + 2, m[3] - 1),
              y |-> SubSeq(s, py + 2, m[4] - 1),
              z |-> SubSeq(s, pz + 2, RunStop(s, pz + 2, CoordStops \cup {"("}) - 1),
              comment |-> IF HasComment(s, ends) THEN Comment(s, ends) ELSE <<>>]
    ELSE [x |-> FirstWord(s, coord_patterns.x),
          y |-> FirstWord(s, coord_patterns.y),
          z |-> FirstWord(s, coord_patterns.z),
          comment |-> <<>>]

IntervalStops == {","}

\* re.search(r'DEPTH INTERVALS:.*?FROM=([^\s,]+),?\s*TO=([^\s(]+)')
IntervalMatches(s) ==
  UNION { UNION { { <<b, pf, e1, 0>> :
              e1 \in {e \in RunEnds(s, pf + 2, IntervalStops) :
                        LET pt == NextKeyPos(s, e, IntervalStops)
                        IN  /\ ExactKeyAt(s, pt, "TO")
                            /\ RunStop(s, pt + 2, {"("}) > pt + 2} } :
            pf \in FirstKeyStarts(s, b, "FROM") } :
          b \in LabelEnds(s, L_INTERVALS) }

\* lines 802-810: both slots, with one shared comment
ParseIntervals(s) ==
  LET M == IntervalMatches(s)
  IN
  IF M # {}
    THEN LET m  == Preferred(M)
             pt == NextKeyPos(s, m[3], IntervalStops)
             ends == LabelEnds(s, L_INTERVALS)
             c  == IF HasComment(s, ends) THEN Comment(s, ends) ELSE <<>>
         IN  [from |-> [found |-> SubSeq(s, m[2] + 2, m[3] - 1), comment |-> c],
              to   |-> [found |-> SubSeq(s, pt + 2, RunStop(s, pt + 2, {"("}) - 1),
                        comment |-> c]]
    ELSE [from |-> [found |-> PyNone, comment |-> <<>>],
          to   |-> [found |-> PyNone, comment |-> <<>>]]

\* str.split(',')
RECURSIVE SplitComma(_)
SplitComma(s) ==
  LET commas == {k \in 1..Len(s) : s[k] = ","}
  IN  IF commas = {} THEN <<s>>
      ELSE <<SubSeq(s, 1, Min(commas) - 1)>> \o SplitComma(SubSeq(s, Min(commas) + 1, Len(s)))

\* 'NOT FOUND' in g.upper()
ContainsNotFound(g) ==
  \E k \in 1..(Len(g) - 2) :
     Upper(g[k]) = "NOT" /\ g[k + 1] = SP /\ Upper(g[k + 2]) = "FOUND"

\* str.strip('"\'')
StripQuotes(g) ==
  LET keep == {k \in 1..Len(g) : g[k] \notin {"\"", "'"}}
  IN  IF keep = {} THEN <<>>
      ELSE SubSeq(g, Min(keep), CHOOSE k \in keep : \A j \in keep : j <= k)

\* the elements of a list that pass a test, in order
RECURSIVE SelectList(_, _)
SelectList(l, keepSet) ==
  IF l = <<>> THEN <<>>
  ELSE (IF Head(l) \in keepSet THEN <<Head(l)>> ELSE <<>>) \o SelectList(Tail(l), keepSet)

\* line 791: the list layout [a, b, c]
GradesFromList(grades_str) ==
  LET parts == SplitComma(grades_str)
      kept  == SelectList(parts, {parts[k] : k \in {j \in 1..Len(parts) :
                                    Strip(parts[j]) # <<>> /\ ~ContainsNotFound(parts[j])}})
  IN  [k \in 1..Len(kept) |-> StripQuotes(Strip(kept[k]))]

\* lines 794-797: one token without white space, split at commas; the test
\* 'NOT FOUND' not in grades_str.upper() can never fail on a text without blanks
GradesFromToken(grades_str) ==
  IF ContainsNotFound(grades_str) THEN <<>>
  ELSE LET parts == SplitComma(grades_str)
           kept  == SelectList(parts, {parts[k] : k \in {j \in 1..Len(parts) :
                                         Strip(parts[j]) # <<>>}})
       IN  [k \in 1..Len(kept) |-> Strip(kept[k])]

\* re.search(r'GRADE COLUMNS:\s*(?:\[([^\]]+)\]|([^\s(]+))'), lines 786-800
ParseGrades(s) ==
  LET hits == SingleHits(s, L_GRADES)
      ends == LabelEnds(s, L_GRADES)
  IN
  IF hits = {} THEN [found |-> <<>>, comment |-> <<>>]
  ELSE
    LET w      == SkipWs(s, Min(hits) + Len(L_GRADES))
        closes == {c \in (w + 1)..Len(s) : s[c] = "]"}
        isList == s[w] = "[" /\ closes # {} /\ Min(closes) >= w + 2
    IN  [found   |-> IF isList
                       THEN GradesFromList(SubSeq(s, w + 1, Min(closes) - 1))
                       ELSE GradesFromToken(SubSeq(s, w, RunStop(s, w, {"("}) - 1)),
         comment |-> IF HasComment(s, ends) THEN Comment(s, ends) ELSE <<>>]

\* re.search(r'DEPTH\s*\(AT\):') : the ends of the occurrences of the label
DepthAtEnds(s) ==
  { SkipWs(s, i + 1) + 4 :
      i \in {j \in 1..Len(s) :
               /\ EndsWith(s[j], "DEPTH")
               /\ SkipWs(s, j + 1) + 3 <= Len(s)
               /\ s[SkipWs(s, j + 1)] = "("
               /\ Upper(s[SkipWs(s, j + 1) + 1]) = "AT"
               /\ s[SkipWs(s, j + 1) + 2] = ")"
               /\ s[SkipWs(s, j + 1) + 3] = ":"} }

depth_cols == <<"AT", "DEPTH", "MD", "MEASURED_DEPTH", "FROM_DEPTH", "TO_DEPTH">>

DepthMeasurement == <<"Depth", SP, "measurement">>

\* lines 832-853
ParseDepth(s) ==
  LET ends == DepthAtEnds(s)
      hits == {e \in ends : LET w == SkipWs(s, e) IN w <= Len(s) /\ s[w] # "("}
      col  == FirstWord(s, depth_cols)
  IN
  IF hits # {}
    THEN LET w    == SkipWs(s, Min(hits))
             name == SubSeq(s, w, RunStop(s, w, {"("}) - 1)
         IN  IF IsColumnName(name)
               THEN [found   |-> name,
                     comment |-> IF HasComment(s, ends)
                                   THEN Comment(s, ends) ELSE DepthMeasurement]
               ELSE [found |-> PyNone, comment |-> <<>>]
    ELSE IF col # PyNone
           THEN [found |-> col, comment |-> DepthMeasurement]
           ELSE [found |-> PyNone, comment |-> <<>>]

\* the empty dict {}
EmptyDict == [k \in {} |-> <<>>]

\* lines 714-855
parse_column_identification_result(column_result_str) ==
  IF column_result_str = <<>> THEN EmptyDict
  ELSE LET intervals == ParseIntervals(column_result_str) IN
       [hole_id     |-> ParseSingle(column_result_str, L_HOLE_NAME),
        coordinates |-> ParseCoordinates(column_result_str),
        grades      |-> ParseGrades(column_result_str),
        from        |-> intervals.from,
        to          |-> intervals.to,
        dip         |-> ParseSingle(column_result_str, L_DIP),
        azimuth     |-> ParseSingle(column_result_str, L_AZIMUTH),
        depth       |-> ParseDepth(column_result_str),
        density     |-> ParseSingle(column_result_str, L_DENSITY),
        lithology   |-> ParseSingle(column_result_str, L_LITHOLOGY)]

(***************************************************************************)
(* Summary formatters                                                      *)
(***************************************************************************)
\* dict.get(key, default)
Get(d, key, default) == IF key \in DOMAIN d THEN d[key] ELSE default

\* a field table whose Collar entry also lists dip
relevant_fields_collar_with_dip(file_type) ==
  CASE file_type = <<"Collar">>    -> {"hole_id", "coordinates", "dip"}
    [] file_type = <<"Survey">>    -> {"hole_id", "dip", "azimuth", "depth"}
    [] file_type = <<"Assay">>     -> {"hole_id", "from", "to", "grades"}
    [] file_type = <<"Lithology">> -> {"hole_id", "from", "to", "lithology"}
    [] file_type = <<"Density">>   -> {"hole_id", "from", "to", "density"}
    [] OTHER                       -> {}

\* lines 858-867
get_relevant_fields_for_file_type(file_type) ==
  CASE file_type = <<"Collar">>    -> {"hole_id", "coordinates"}
    [] file_type = <<"Survey">>    -> {"hole_id", "dip", "azimuth", "depth"}
    [] file_type = <<"Assay">>     -> {"hole_id", "from", "to", "grades"}
    [] file_type = <<"Lithology">> -> {"hole_id", "from", "to", "lithology"}
    [] file_type = <<"Density">>   -> {"hole_id", "from", "to", "density"}
    [] OTHER                       -> {}

\* extract_file_type_from_result(r['type']) or "Unknown"
FileTypeOf(r) ==
  IF Truthy(extract_file_type_from_result(r.type))
    THEN extract_file_type_from_result(r.type) ELSE <<"Unknown">>

NOT_FOUND      == <<"NOT", SP, "FOUND">>
NotIdentified  == <<"Not", SP, "identified">>
OK_            == <<"OK">>
OriginalColumn == <<"(", "original", SP, "column", ")">>
NotMapped      ==
  <<"Column", SP, "present", SP, "in", SP, "file", SP, "but", SP, "not", SP, "mapped", SP, "to", SP, "standard", SP, "field">>

\* the single-value kinds in the order both formatters emit them, with the
\* label of their row
SingleKinds ==
  << [kind |-> "hole_id",   label |-> <<"Hole", SP, "ID">>],
     [kind |-> "dip",       label |-> <<"DIP">>],
     [kind |-> "azimuth",   label |-> <<"Azimuth">>],
     [kind |-> "depth",     label |-> <<"Depth", SP, "(", "AT", ")">>],
     [kind |-> "from",      label |-> <<"FROM", SP, "(", "depth", ")">>],
     [kind |-> "to",        label |-> <<"TO", SP, "(", "depth", ")">>],
     [kind |-> "density",   label |-> <<"Density">>],
     [kind |-> "lithology", label |-> <<"Lithology">>] >>

\* parsed_cols.get(kind, {}).get("found", "NOT FOUND")
FoundOf(parsed_cols, kind) == Get(Get(parsed_cols, kind, EmptyDict), "found", NOT_FOUND)

\* parsed_cols.get("coordinates", {}).get(axis, "NOT FOUND")
AxisOf(parsed_cols, axis) == Get(Get(parsed_cols, "coordinates", EmptyDict), axis, NOT_FOUND)

Row(file_type, field, found, comment) ==
  [file_type |-> file_type, field |-> field, found |-> found, comment |-> comment]

\* one row of a single-value kind: lines 941-944 and 1039-1047
SingleRow(file_type, parsed_cols, kind, label) ==
  LET found == FoundOf(parsed_cols, kind)
  IN  Row(file_type, label, Str(found),
          IF found # NOT_FOUND THEN Get(parsed_cols[kind], "comment", OK_) ELSE NotIdentified)

\* the three coordinate rows: lines 946-953 and 1051-1073
CoordinateRows(file_type, parsed_cols) ==
  LET x == AxisOf(parsed_cols, "x")
  IN  << Row(file_type, <<"Coordinates", SP, "X">>, Str(x),
             IF x # NOT_FOUND THEN Get(parsed_cols["coordinates"], "comment", OK_)
                              ELSE NotIdentified),
         Row(file_type, <<"Coordinates", SP, "Y">>, Str(AxisOf(parsed_cols, "y")), OK_),
         Row(file_type, <<"Coordinates", SP, "Z">>, Str(AxisOf(parsed_cols, "z")), OK_) >>

\* ", ".join(grades)
RECURSIVE JoinComma(_)
JoinComma(l) ==
  IF l = <<>> THEN <<>>
  ELSE IF Len(l) = 1 THEN l[1]
  ELSE l[1] \o <<",", SP>> \o JoinComma(Tail(l))

\* the Grades row, emitted only for a non-empty list: lines 980-985, 1141-1151
GradesRows(file_type, parsed_cols) ==
  LET grades == Get(Get(parsed_cols, "grades", EmptyDict), "found", <<>>)
  IN  IF grades # <<>>
        THEN << Row(file_type, <<"Grades">>, JoinComma(grades),
                    Get(parsed_cols["grades"], "comment", OK_)) >>
        ELSE <<>>

\* the rows of the relevant fields of one file, in the order of the source:
\* hole_id, coordinates, dip, azimuth, depth, from, to, grades, density, lithology
RECURSIVE SingleRows(_, _, _, _)
SingleRows(file_type, parsed_cols, relevant_fields, kinds) ==
  IF kinds = <<>> THEN <<>>
  ELSE (IF Head(kinds).kind \in relevant_fields
          THEN <<SingleRow(file_type, parsed_cols, Head(kinds).kind, Head(kinds).label)>>
          ELSE <<>>)
       \o SingleRows(file_type, parsed_cols, relevant_fields, Tail(kinds))

FieldRows(file_type, parsed_cols, relevant_fields) ==
  SingleRows(file_type, parsed_cols, relevant_fields, SubSeq(SingleKinds, 1, 1))
  \o (IF "coordinates" \in relevant_fields THEN CoordinateRows(file_type, parsed_cols) ELSE <<>>)
  \o SingleRows(file_type, parsed_cols, relevant_fields, SubSeq(SingleKinds, 2, 6))
  \o (IF "grades" \in relevant_fields THEN GradesRows(file_type, parsed_cols) ELSE <<>>)
  \o SingleRows(file_type, parsed_cols, relevant_fields, SubSeq(SingleKinds, 7, 8))

\* the elements of a list
Range(l) == {l[k] : k \in 1..Len(l)}

\* the '(original column)' rows of one file: lines 1013-1016 and 1179-1186
RECURSIVE OriginalRows(_, _, _)
OriginalRows(file_type, original_columns, identified_cols) ==
  IF original_columns = <<>> THEN <<>>
  ELSE (IF Head(original_columns) \notin identified_cols
          THEN <<Row(file_type, Head(original_columns), OriginalColumn, NotMapped)>>
          ELSE <<>>)
       \o OriginalRows(file_type, Tail(original_columns), identified_cols)

\* original_columns of a record: lines 935-938 and 1030-1033
OriginalColumnsOf(r, all_analyses) ==
  LET file_key == Get(r, "file", <<>>)
  IN  IF file_key \in DOMAIN all_analyses
        THEN Get(all_analyses[file_key], "columns", <<>>) ELSE <<>>

\* d[k] = v on a dict
Put(d, k, v) == [x \in DOMAIN d \cup {k} |-> IF x = k THEN v ELSE d[x]]

\* the labels under which one record enters identified_map, with their values:
\* lines 890-926 (None, '' and [] are falsy and enter nothing)
IdentifiedEntries(parsed_cols, relevant_fields) ==
  { <<SingleKinds[k].label, FoundOf(parsed_cols, SingleKinds[k].kind)>> :
      k \in {j \in 1..Len(SingleKinds) :
               /\ SingleKinds[j].kind \in relevant_fields
               /\ FoundOf(parsed_cols, SingleKinds[j].kind) # NOT_FOUND
               /\ Truthy(FoundOf(parsed_cols, SingleKinds[j].kind))} }
  \cup
  { <<e[1], AxisOf(parsed_cols, e[2])>> :
      e \in {f \in { <<<<"Coordinates", SP, "X">>, "x">>, <<<<"Coordinates", SP, "Y">>, "y">>,
                      <<<<"Coordinates", SP, "Z">>, "z">> } :
               /\ "coordinates" \in relevant_fields
               /\ AxisOf(parsed_cols, f[2]) # NOT_FOUND
               /\ Truthy(AxisOf(parsed_cols, f[2]))} }

\* the grade columns one record enters under "Grades": lines 917-920
IdentifiedGrades(parsed_cols, relevant_fields) ==
  IF "grades" \in relevant_fields
    THEN Get(Get(parsed_cols, "grades", EmptyDict), "found", <<>>)
    ELSE <<>>

\* the one element of a singleton set; { e(v) : v \in {x} } evaluates x once
\* however often e uses it
The(S) == CHOOSE x \in S : TRUE

\* what both formatters compute first for a record r: the detected type
\* (extract_file_type_from_result(r['type']) or "Unknown") and the parsed
\* column text
ParsedOf(r) == parse_column_identification_result(Get(r, "columns", <<>>))

\* identified_map[file_type] after one more record of that type: every label
\* the record identifies is overwritten, the others keep what an earlier
\* record of the type left there (lines 886-926)
MergeIdentified(old, ents, grades) ==
  The({ IF grades # <<>> THEN Put(new1, <<"Grades">>, Range(grades)) ELSE new1 :
        new1 \in { [l \in DOMAIN old \cup {e[1] : e \in ents} |->
                      IF \E e \in ents : e[1] = l
                        THEN {(CHOOSE e \in ents : e[1] = l)[2]}
                        ELSE old[l]] } })

\* identified_map after the first loop, lines 880-926: per file type, per
\* label, the set of column names the last record of that type gave it
RECURSIVE BuildIdentifiedMap(_, _)
BuildIdentifiedMap(all_results, identified_map) ==
  IF all_results = <<>> THEN identified_map
  ELSE
    The({ BuildIdentifiedMap(Tail(all_results), next) :
          next \in { Put(identified_map, ft,
                         MergeIdentified(Get(identified_map, ft, EmptyDict), ents, grades)) :
                     ft \in {FileTypeOf(Head(all_results))},
                     ents \in {The({ IdentifiedEntries(parsed, get_relevant_fields_for_file_type(t)) :
                                     t \in {FileTypeOf(Head(all_results))},
                                     parsed \in {ParsedOf(Head(all_results))} })},
                     grades \in {The({ IdentifiedGrades(parsed, get_relevant_fields_for_file_type(t)) :
                                       t \in {FileTypeOf(Head(all_results))},
                                       parsed \in {ParsedOf(Head(all_results))} })} } })

\* identified_cols of one record in format_consolidated_summary: lines 997-1011
TextIdentifiedCols(identified_map, file_type, parsed_cols) ==
  UNION {Get(identified_map, file_type, EmptyDict)[l] :
           l \in DOMAIN Get(identified_map, file_type, EmptyDict)}
  \cup {AxisOf(parsed_cols, a) : a \in {b \in {"x", "y", "z"} :
                                         /\ AxisOf(parsed_cols, b) # NOT_FOUND
                                         /\ Truthy(AxisOf(parsed_cols, b))}}

\* the rows of format_consolidated_summary, lines 870-1019.  A line
\* f"{file_type:<12} | {field:<25} | {found:<30} | {comment:<130}" is modelled
\* by the four values it pads (padding never truncates); the title, header and
\* separator lines carry no content.
\* the rows of one iteration of the second loop, lines 929-1016
TextRowsOfRecord(r, all_analyses, identified_map) ==
  The({ FieldRows(ft, parsed, get_relevant_fields_for_file_type(ft))
        \o OriginalRows(ft, OriginalColumnsOf(r, all_analyses),
                        TextIdentifiedCols(identified_map, ft, parsed)) :
        ft \in {FileTypeOf(r)}, parsed \in {ParsedOf(r)} })

RECURSIVE TextRows(_, _, _)
TextRows(all_results, all_analyses, identified_map) ==
  IF all_results = <<>> THEN <<>>
  ELSE TextRowsOfRecord(Head(all_results), all_analyses, identified_map)
       \o TextRows(Tail(all_results), all_analyses, identified_map)

format_consolidated_summary(all_results, all_analyses) ==
  The({ TextRows(all_results, all_analyses, identified_map) :
        identified_map \in {BuildIdentifiedMap(all_results, EmptyDict)} })

\* identified_cols that leaves the coordinate axes out
JsonIdentifiedColsWithoutAxes(parsed_cols, relevant_fields) ==
  { Str(FoundOf(parsed_cols, SingleKinds[k].kind)) :
      k \in {j \in 1..Len(SingleKinds) :
               /\ SingleKinds[j].kind \in relevant_fields
               /\ FoundOf(parsed_cols, SingleKinds[j].kind) # NOT_FOUND} }
  \cup Range(IdentifiedGrades(parsed_cols, relevant_fields))

\* identified_cols of one record in format_consolidated_summary_json:
\* str(found) of every relevant kind whose value is not "NOT FOUND"
JsonIdentifiedCols(parsed_cols, relevant_fields) ==
  { Str(FoundOf(parsed_cols, SingleKinds[k].kind)) :
      k \in {j \in 1..Len(SingleKinds) :
               /\ SingleKinds[j].kind \in relevant_fields
               /\ FoundOf(parsed_cols, SingleKinds[j].kind) # NOT_FOUND} }
  \cup
  { Str(AxisOf(parsed_cols, a)) :
      a \in {b \in {"x", "y", "z"} :
               "coordinates" \in relevant_fields /\ AxisOf(parsed_cols, b) # NOT_FOUND} }
  \cup Range(IdentifiedGrades(parsed_cols, relevant_fields))

\* the rows of one iteration of the loop, lines 1027-1186
JsonRowsOfRecord(r, all_analyses) ==
  The({ FieldRows(ft, parsed, get_relevant_fields_for_file_type(ft))
        \o OriginalRows(ft, OriginalColumnsOf(r, all_analyses),
                        JsonIdentifiedCols(parsed, get_relevant_fields_for_file_type(ft))) :
        ft \in {FileTypeOf(r)}, parsed \in {ParsedOf(r)} })

\* lines 1022-1188
RECURSIVE format_consolidated_summary_json(_, _)
format_consolidated_summary_json(all_results, all_analyses) ==
  IF all_results = <<>> THEN <<>>
  ELSE JsonRowsOfRecord(Head(all_results), all_analyses)
       \o format_consolidated_summary_json(Tail(all_results), all_analyses)

(***************************************************************************)
(* Stage texts: what the inference capability can answer, and the          *)
(* sentinel strings of the two entry points.                               *)
(***************************************************************************)
Conf == <<SP, "(", "confidence", ":", SP, "high", ")">>

\* answers of the classify stage
TypeTexts ==
  { L_FILE_TYPE \o <<SP, "Collar">>,
    L_FILE_TYPE \o <<SP, "Survey">> }

\* answers of the identify stage
ColumnTexts ==
  { L_HOLE_NAME \o <<SP, "DHID">> \o Conf \o <<SP, "-", SP, "unique", NL>>
      \o L_COORDINATES \o <<SP, "X", "=", "XCOLLAR", ",", SP, "Y", "=", "YCOLLAR", ",", SP,
                            "Z", "=", "ZCOLLAR">> \o Conf \o <<SP, "-", SP, "utm">>,
    L_HOLE_NAME \o <<SP, "DHID", NL>> \o L_DIP \o <<SP, "DIP", NL>>
      \o L_AZIMUTH \o <<SP, "NOT", SP, "FOUND">> }

\* answers of the validate stage
ValidationTexts ==
  { <<"VALIDATION", SP, "SUMMARY", ":", SP, "ok">> }

\* a kickoff() call that raised
Raised == <<"<raised>">>

\* lines 1359, 1392, 1423
RA_Sentinel1 ==
  <<"Error", SP, "identifying", SP, "file", SP, "type", SP, "-", SP, "Task", SP, "failed">>
RA_Sentinel2 ==
  <<"Error", SP, "identifying", SP, "columns", SP, "-", SP, "Task", SP, "failed">>
RA_Sentinel3 == <<"Error", SP, "validating">>

\* lines 1538, 1565, 1591
API_Sentinel1 == <<"Error", SP, "identifying", SP, "file", SP, "type">>
API_Sentinel2 == <<"Error", SP, "identifying", SP, "columns">>
API_Sentinel3 == <<"Error", SP, "validating">>

(***************************************************************************)
(* Prompt builders.  A task description is modelled by the values the      *)
(* f-string embeds; a builder that raises gives [raises |-> TRUE].         *)
(***************************************************************************)
\* lines 174-290: the else branch formats {heuristics_text}, a local that only
\* the if branch assigns
create_file_type_task(analysis, heuristics) ==
  IF heuristics.loaded
    THEN [raises |-> FALSE, stage |-> 1, filename |-> analysis.filename,
          columns |-> analysis.columns, guided |-> TRUE]
    ELSE [raises |-> TRUE, exc |-> "UnboundLocalError"]

\* lines 313-329: the required-columns map of the catalog key that equals
\* file_type case-insensitively, given by the kinds it has an entry for
get_required_columns_for_file_type(file_type, heuristics) ==
  IF ~heuristics.loaded \/ ~Truthy(file_type) THEN {}
  ELSE LET keys == {key \in DOMAIN heuristics.file_types : <<Upper(key)>> = UpperSeq(file_type)}
       IN  IF keys = {} THEN {} ELSE heuristics.file_types[CHOOSE key \in keys : TRUE]

\* output-format lines with the DIP line moved behind the AZIMUTH line
output_format_lines_azimuth_first(required_cols) ==
  (IF "hole_id" \in required_cols THEN <<L_HOLE_NAME>> ELSE <<>>)
  \o (IF "azimuth" \in required_cols THEN <<L_AZIMUTH>> ELSE <<>>)
  \o (IF "dip" \in required_cols THEN <<L_DIP>> ELSE <<>>)
  \o (IF "depth" \in required_cols THEN <<L_DEPTH_AT>> ELSE <<>>)
  \o (IF "coordinates" \in required_cols THEN <<L_COORDINATES>> ELSE <<>>)
  \o (IF "element_columns" \in required_cols THEN <<L_GRADES>> ELSE <<>>)
  \o (IF "depth_intervals" \in required_cols THEN <<L_INTERVALS>> ELSE <<>>)
  \o (IF "lithology_code" \in required_cols THEN <<L_LITHOLOGY>> ELSE <<>>)
  \o (IF "density" \in required_cols THEN <<L_DENSITY>> ELSE <<>>)

\* lines 494-603: output_format_lines, each line given by its label.  The
\* coordinates entry of a catalog is a CoordinateSpec, which holds the per-axis
\* name lists line 544 asks for.
output_format_lines(required_cols) ==
  (IF "hole_id" \in required_cols THEN <<L_HOLE_NAME>> ELSE <<>>)
  \o (IF "dip" \in required_cols THEN <<L_DIP>> ELSE <<>>)
  \o (IF "azimuth" \in required_cols THEN <<L_AZIMUTH>> ELSE <<>>)
  \o (IF "depth" \in required_cols THEN <<L_DEPTH_AT>> ELSE <<>>)
  \o (IF "coordinates" \in required_cols THEN <<L_COORDINATES>> ELSE <<>>)
  \o (IF "element_columns" \in required_cols THEN <<L_GRADES>> ELSE <<>>)
  \o (IF "depth_intervals" \in required_cols THEN <<L_INTERVALS>> ELSE <<>>)
  \o (IF "lithology_code" \in required_cols THEN <<L_LITHOLOGY>> ELSE <<>>)
  \o (IF "density" \in required_cols THEN <<L_DENSITY>> ELSE <<>>)

\* lines 700-705: the OUTPUT FORMAT of the prompt built without a catalog
fallback_output_format == <<L_HOLE_NAME, L_DIP, L_AZIMUTH, L_GRADES, L_COORDINATES>>

\* lines 409-711
create_column_identification_task(analysis, file_type_result, heuristics, common_columns) ==
  [raises |-> FALSE, stage |-> 2, filename |-> analysis.filename,
   file_type_result |-> file_type_result,
   detected_file_type |-> IF heuristics.loaded
                            THEN extract_file_type_from_result(file_type_result)
                            ELSE PyNone,
   output_format |-> IF heuristics.loaded
                       THEN output_format_lines(
                              get_required_columns_for_file_type(
                                extract_file_type_from_result(file_type_result), heuristics))
                       ELSE fallback_output_format,
   guided |-> heuristics.loaded]

\* lines 1191-1224
create_validation_task(file_type_result, column_result) ==
  [raises |-> FALSE, stage |-> 3,
   file_type_result |-> file_type_result, column_result |-> column_result]

(***************************************************************************)
(* First pass of both entry points: fingerprints and common columns.       *)
(***************************************************************************)
\* lines 1288-1292 and 1491-1495
FirstPass(csv_files) ==
  [k \in {j \in 1..Len(csv_files) : "error" \notin DOMAIN analyze_csv_structure(j, csv_files[j])}
     |-> analyze_csv_structure(k, csv_files[k])]

\* a set of file keys as a list, in the order of all_analyses
RECURSIVE KeysInOrder(_)
KeysInOrder(S) == IF S = {} THEN <<>> ELSE <<Min(S)>> \o KeysInOrder(S \ {Min(S)})

\* a correlator that also enters the columns of a single file
CommonColumnsFromOneFile(analyses) ==
  IF Cardinality(DOMAIN analyses) > 1
    THEN LET all_column_names == UNION {Range(analyses[f].columns) : f \in DOMAIN analyses}
             files_with(col)  == {f \in DOMAIN analyses : col \in Range(analyses[f].columns)}
         IN  [col \in all_column_names |->
                [files |-> KeysInOrder(files_with(col)),
                 count |-> Cardinality(files_with(col))]]
    ELSE EmptyDict

\* lines 1296-1311 and 1498-1510
CommonColumns(analyses) ==
  IF Cardinality(DOMAIN analyses) > 1
    THEN LET all_column_names == UNION {Range(analyses[f].columns) : f \in DOMAIN analyses}
             files_with(col)  == {f \in DOMAIN analyses : col \in Range(analyses[f].columns)}
         IN  [col \in {c \in all_column_names : Cardinality(files_with(c)) > 1} |->
                [files |-> KeysInOrder(files_with(col)),
                 count |-> Cardinality(files_with(col))]]
    ELSE EmptyDict

(***************************************************************************)
(* The two batch entry points, run_analysis and run_analysis_api.          *)
(***************************************************************************)
VARIABLES
  entry,            \* which entry point runs
  heuristics,       \* what load_heuristics() returned
  llm_ok,           \* whether create_llm() and the Agent constructors succeed
  csv,              \* the directory: one content per discovered file key
  pc,               \* position of the entry point
  files,            \* file keys in discovery order
  idx,              \* position of the per-file loop in files
  analysis,         \* local of the loop
  task,             \* the task description handed to the next kickoff()
  all_analyses, common_columns, results,
  result1, result1_str, result2, result2_str, result3, result3_str,
  calls,            \* every kickoff() made so far
  ret,              \* how the entry point ended
  summary,          \* rows of the consolidated text table
  summary_json      \* rows of the consolidated record list

vars == <<entry, heuristics, llm_ok, csv, pc, files, idx, analysis, task,
              all_analyses, common_columns, results,
              result1, result1_str, result2, result2_str, result3, result3_str,
              calls, ret, summary, summary_json>>

NoTask == [raises |-> FALSE, stage |-> 0]
NoAnalysis == [unbound |-> TRUE]
Pending == [kind |-> "pending"]

Directories == UNION {[1..n -> CsvChoices] : n \in 0..MaxFiles}

Init ==
  /\ entry \in {"run_analysis", "run_analysis_api"}
  /\ heuristics \in {NoHeuristics, HeuristicsCatalog}
  /\ llm_ok \in BOOLEAN
  /\ csv \in Directories
  /\ pc = "start"
  /\ files = <<>>
  /\ idx = 0
  /\ analysis = NoAnalysis
  /\ task = NoTask
  /\ all_analyses = EmptyDict
  /\ common_columns = EmptyDict
  /\ results = <<>>
  /\ result1 = Unbound /\ result1_str = Unbound
  /\ result2 = Unbound /\ result2_str = Unbound
  /\ result3 = Unbound /\ result3_str = Unbound
  /\ calls = <<>>
  /\ ret = Pending
  /\ summary = <<>>
  /\ summary_json = <<>>

locals == <<result1, result1_str, result2, result2_str, result3, result3_str>>

\* the entry point ends with outcome r
Ends(r) ==
  /\ pc' = "done"
  /\ ret' = r

\* the kickoff() of the current task on file key, answering out
Call(key, out) ==
  calls' = Append(calls, [file |-> key, task |-> task, out |-> out])

\* the local named by a pair (object, text) as an expression
\* "x_str if 'x_str' in locals() else str(x)", lines 1365 and 1428-1430
StrOrObject(x_str, x) == IF x_str # Unbound THEN x_str ELSE x

\* what every action of the entry points leaves alone
Fixed == UNCHANGED <<entry, heuristics, llm_ok, csv, summary, summary_json>>

\* the result of analyze_csv_structure for the file the loop is at
Current == analyze_csv_structure(files[idx], csv[files[idx]])

UnboundLocalError == [kind |-> "exception", exc |-> "UnboundLocalError"]

(*------------------------- run_analysis ---------------------------------*)
\* lines 1253-1261 and 1277-1284: bare return
RA_Abort ==
  /\ pc = "start" /\ entry = "run_analysis"
  /\ ~llm_ok
  /\ Ends([kind |-> "None"])
  /\ Fixed
  /\ UNCHANGED <<files, idx, analysis, task, all_analyses, common_columns, results,
                 locals, calls>>

\* lines 1264-1268: bare return
RA_NoFiles ==
  /\ pc = "start" /\ entry = "run_analysis"
  /\ llm_ok
  /\ Len(csv) = 0
  /\ Ends([kind |-> "None"])
  /\ Fixed
  /\ UNCHANGED <<files, idx, analysis, task, all_analyses, common_columns, results,
                 locals, calls>>

\* lines 1264-1313
RA_Start ==
  /\ pc = "start" /\ entry = "run_analysis"
  /\ llm_ok
  /\ Len(csv) > 0
  /\ files' = [k \in 1..Len(csv) |-> k]
  /\ all_analyses' = FirstPass(csv)
  /\ common_columns' = CommonColumns(FirstPass(csv))
  /\ results' = <<>>
  /\ idx' = 1
  /\ pc' = "loop"
  /\ Fixed
  /\ UNCHANGED <<analysis, task, locals, calls, ret>>

\* lines 1323-1327: continue
RA_SkipFile ==
  /\ pc = "loop" /\ entry = "run_analysis"
  /\ idx <= Len(files)
  /\ "error" \in DOMAIN Current
  /\ analysis' = Current
  /\ idx' = idx + 1
  /\ Fixed
  /\ UNCHANGED <<pc, files, task, all_analyses, common_columns, results, locals, calls, ret>>

\* lines 1323-1342
RA_Task1 ==
  /\ pc = "loop" /\ entry = "run_analysis"
  /\ idx <= Len(files)
  /\ "error" \notin DOMAIN Current
  /\ analysis' = Current
  /\ LET task1 == create_file_type_task(Current, heuristics)
     IN  IF task1.raises
           THEN Ends([kind |-> "exception", exc |-> task1.exc]) /\ task' = task
           ELSE task' = task1 /\ pc' = "kickoff1" /\ ret' = ret
  /\ Fixed
  /\ UNCHANGED <<files, idx, all_analyses, common_columns, results, locals, calls>>

\* lines 1344-1373
RA_Kickoff1 ==
  /\ pc = "kickoff1" /\ entry = "run_analysis"
  /\ \E out \in TypeTexts \cup {Raised} :
       /\ Call(files[idx], out)
       /\ IF out = Raised
            THEN result1' = RA_Sentinel1 /\ result1_str' = result1_str
            ELSE result1' = out /\ result1_str' = out
  /\ task' = create_column_identification_task(
               analysis, StrOrObject(result1_str', result1'), heuristics, common_columns)
  /\ pc' = "kickoff2"
  /\ Fixed
  /\ UNCHANGED <<files, idx, analysis, all_analyses, common_columns, results,
                 result2, result2_str, result3, result3_str, ret>>

\* lines 1375-1404
RA_Kickoff2 ==
  /\ pc = "kickoff2" /\ entry = "run_analysis"
  /\ \E out \in ColumnTexts \cup {Raised} :
       /\ Call(files[idx], out)
       /\ IF out = Raised
            THEN result2' = RA_Sentinel2 /\ result2_str' = result2_str
            ELSE result2' = out /\ result2_str' = out
  /\ task' = create_validation_task(result1, result2')
  /\ pc' = "kickoff3"
  /\ Fixed
  /\ UNCHANGED <<files, idx, analysis, all_analyses, common_columns, results,
                 result1, result1_str, result3, result3_str, ret>>

\* lines 1406-1433
RA_Kickoff3 ==
  /\ pc = "kickoff3" /\ entry = "run_analysis"
  /\ \E out \in ValidationTexts \cup {Raised} :
       /\ Call(files[idx], out)
       /\ IF out = Raised
            THEN result3' = RA_Sentinel3 /\ result3_str' = result3_str
            ELSE result3' = out /\ result3_str' = out
  /\ results' = Append(results,
                  [file       |-> files[idx],
                   type       |-> StrOrObject(result1_str, result1),
                   columns    |-> StrOrObject(result2_str, result2),
                   validation |-> StrOrObject(result3_str', result3')])
  /\ idx' = idx + 1
  /\ pc' = "loop"
  /\ Fixed
  /\ UNCHANGED <<files, analysis, task, all_analyses, common_columns,
                 result1, result1_str, result2, result2_str, ret>>

\* lines 1449-1452: the fingerprints found in the records
AnalysesFromResults(rs) ==
  [f \in {rs[k].file : k \in {j \in 1..Len(rs) : "analysis" \in DOMAIN rs[j]}} |->
     rs[CHOOSE k \in 1..Len(rs) :
          /\ rs[k].file = f /\ "analysis" \in DOMAIN rs[k]
          /\ \A j \in k+1..Len(rs) : rs[j].file # f].analysis]

\* lines 1435-1456
RA_Finish ==
  /\ pc = "loop" /\ entry = "run_analysis"
  /\ idx > Len(files)
  /\ summary' = format_consolidated_summary(results, AnalysesFromResults(results))
  /\ Ends([kind |-> "tuple", value |-> <<results, AnalysesFromResults(results)>>])
  /\ UNCHANGED <<entry, heuristics, llm_ok, csv, summary_json>>
  /\ UNCHANGED <<files, idx, analysis, task, all_analyses, common_columns, results,
                 locals, calls>>

(*------------------------- run_analysis_api -----------------------------*)
\* line 1473, 1486-1488: nothing catches the exception
API_Abort ==
  /\ pc = "start" /\ entry = "run_analysis_api"
  /\ ~llm_ok
  /\ Ends([kind |-> "exception", exc |-> "ValueError"])
  /\ Fixed
  /\ UNCHANGED <<files, idx, analysis, task, all_analyses, common_columns, results,
                 locals, calls>>

\* lines 1476-1483: return []
API_NoFiles ==
  /\ pc = "start" /\ entry = "run_analysis_api"
  /\ llm_ok
  /\ Len(csv) = 0
  /\ Ends([kind |-> "list", value |-> <<>>])
  /\ Fixed
  /\ UNCHANGED <<files, idx, analysis, task, all_analyses, common_columns, results,
                 locals, calls>>

\* lines 1476-1512
API_Start ==
  /\ pc = "start" /\ entry = "run_analysis_api"
  /\ llm_ok
  /\ Len(csv) > 0
  /\ files' = [k \in 1..Len(csv) |-> k]
  /\ all_analyses' = FirstPass(csv)
  /\ common_columns' = CommonColumns(FirstPass(csv))
  /\ results' = <<>>
  /\ idx' = 1
  /\ pc' = "loop"
  /\ Fixed
  /\ UNCHANGED <<analysis, task, locals, calls, ret>>

\* lines 1516-1518: continue
API_SkipFile ==
  /\ pc = "loop" /\ entry = "run_analysis_api"
  /\ idx <= Len(files)
  /\ "error" \in DOMAIN Current
  /\ analysis' = Current
  /\ idx' = idx + 1
  /\ Fixed
  /\ UNCHANGED <<pc, files, task, all_analyses, common_columns, results, locals, calls, ret>>

\* lines 1516-1527
API_Task1 ==
  /\ pc = "loop" /\ entry = "run_analysis_api"
  /\ idx <= Len(files)
  /\ "error" \notin DOMAIN Current
  /\ analysis' = Current
  /\ LET task1 == create_file_type_task(Current, heuristics)
     IN  IF task1.raises
           THEN Ends([kind |-> "exception", exc |-> task1.exc]) /\ task' = task
           ELSE task' = task1 /\ pc' = "kickoff1" /\ ret' = ret
  /\ Fixed
  /\ UNCHANGED <<files, idx, all_analyses, common_columns, results, locals, calls>>

\* lines 1529-1548: the handler assigns result1_str only
API_Kickoff1 ==
  /\ pc = "kickoff1" /\ entry = "run_analysis_api"
  /\ \E out \in TypeTexts \cup {Raised} :
       /\ Call(files[idx], out)
       /\ IF out = Raised
            THEN result1' = result1 /\ result1_str' = API_Sentinel1
            ELSE result1' = out /\ result1_str' = out
  /\ task' = create_column_identification_task(
               analysis, result1_str', heuristics, common_columns)
  /\ pc' = "kickoff2"
  /\ Fixed
  /\ UNCHANGED <<files, idx, analysis, all_analyses, common_columns, results,
                 result2, result2_str, result3, result3_str, ret>>

\* lines 1550-1574: add_usage runs inside the try; the handler assigns
\* result2_str only; line 1568 reads result1 and result2
API_Kickoff2 ==
  /\ pc = "kickoff2" /\ entry = "run_analysis_api"
  /\ \E out \in ColumnTexts \cup {Raised}, usage_ok \in BOOLEAN :
       /\ out = Raised => usage_ok
       /\ Call(files[idx], out)
       /\ result2' = IF out = Raised THEN result2 ELSE out
       /\ result2_str' = IF out = Raised \/ ~usage_ok THEN API_Sentinel2 ELSE out
  /\ IF result1 = Unbound \/ result2' = Unbound
       THEN Ends(UnboundLocalError) /\ task' = task
       ELSE task' = create_validation_task(result1, result2')
            /\ pc' = "kickoff3" /\ ret' = ret
  /\ Fixed
  /\ UNCHANGED <<files, idx, analysis, all_analyses, common_columns, results,
                 result1, result1_str, result3, result3_str>>

\* lines 1576-1599
API_Kickoff3 ==
  /\ pc = "kickoff3" /\ entry = "run_analysis_api"
  /\ \E out \in ValidationTexts \cup {Raised}, usage_ok \in BOOLEAN :
       /\ out = Raised => usage_ok
       /\ Call(files[idx], out)
       /\ result3' = IF out = Raised THEN result3 ELSE out
       /\ result3_str' = IF out = Raised \/ ~usage_ok THEN API_Sentinel3 ELSE out
  /\ results' = Append(results,
                  [file       |-> files[idx],
                   type       |-> result1_str,
                   columns    |-> result2_str,
                   validation |-> result3_str',
                   analysis   |-> analysis])
  /\ idx' = idx + 1
  /\ pc' = "loop"
  /\ Fixed
  /\ UNCHANGED <<files, analysis, task, all_analyses, common_columns,
                 result1, result1_str, result2, result2_str, ret>>

\* line 1601
API_Finish ==
  /\ pc = "loop" /\ entry = "run_analysis_api"
  /\ idx > Len(files)
  /\ Ends([kind |-> "list", value |-> results])
  /\ Fixed
  /\ UNCHANGED <<files, idx, analysis, task, all_analyses, common_columns, results,
                 locals, calls>>

Next ==
  \/ RA_Abort \/ RA_NoFiles \/ RA_Start \/ RA_SkipFile \/ RA_Task1
  \/ RA_Kickoff1 \/ RA_Kickoff2 \/ RA_Kickoff3 \/ RA_Finish
  \/ API_Abort \/ API_NoFiles \/ API_Start \/ API_SkipFile \/ API_Task1
  \/ API_Kickoff1 \/ API_Kickoff2 \/ API_Kickoff3 \/ API_Finish

Spec == Init /\ [][Next]_vars

(***************************************************************************)
(* The first pass of the entry points on larger batches: fingerprints and  *)
(* the common-columns index, up to the start of the per-file loop.         *)
(***************************************************************************)
\* the largest batch of the first pass
MaxBatch == 3

InitFirstPass ==
  /\ entry \in {"run_analysis", "run_analysis_api"}
  /\ heuristics \in {NoHeuristics, HeuristicsCatalog}
  /\ llm_ok = TRUE
  /\ csv \in UNION {[1..n -> CsvChoices] : n \in 1..MaxBatch}
  /\ pc = "start"
  /\ files = <<>>
  /\ idx = 0
  /\ analysis = NoAnalysis
  /\ task = NoTask
  /\ all_analyses = EmptyDict
  /\ common_columns = EmptyDict
  /\ results = <<>>
  /\ result1 = Unbound /\ result1_str = Unbound
  /\ result2 = Unbound /\ result2_str = Unbound
  /\ result3 = Unbound /\ result3_str = Unbound
  /\ calls = <<>>
  /\ ret = Pending
  /\ summary = <<>>
  /\ summary_json = <<>>

NextFirstPass == RA_Start \/ API_Start

SpecFirstPass == InitFirstPass /\ [][NextFirstPass]_vars

(***************************************************************************)
(* The summary formatters on record lists: what api.py's analyze handler   *)
(* (lines 181-190) and run_analysis (line 1453) do with a batch result.    *)
(***************************************************************************)
\* a column text that names one column under two field kinds
TwoKindsText ==
  L_HOLE_NAME \o <<SP, "DHID", NL>> \o L_DIP \o <<SP, "AT", NL>>
    \o L_AZIMUTH \o <<SP, "BRG", NL>> \o <<"DEPTH", SP, "(", "AT", ")", ":", SP, "AT">>

FmtTypeTexts == TypeTexts \cup {API_Sentinel1}

FmtColumnTexts == ColumnTexts \cup {TwoKindsText, API_Sentinel2, <<>>}

\* the records run_analysis_api can return for one file key
RecordsOf(key) ==
  { [file |-> key, type |-> t, columns |-> c, validation |-> v,
     analysis |-> analyze_csv_structure(key, cols)] :
      t \in FmtTypeTexts, c \in FmtColumnTexts, v \in ValidationTexts,
      cols \in CsvChoices \ {<<Malformed>>} }

RECURSIVE RecordLists(_)
RecordLists(n) ==
  IF n = 0 THEN {<<>>}
  ELSE RecordLists(n - 1)
       \cup {Append(l, r) : l \in {m \in RecordLists(n - 1) : Len(m) = n - 1},
                            r \in RecordsOf(n)}

InitFmt ==
  /\ entry = "summary"
  /\ heuristics = HeuristicsCatalog
  /\ llm_ok = TRUE
  /\ csv = <<>>
  /\ pc = "format"
  /\ files = <<>>
  /\ idx = 0
  /\ analysis = NoAnalysis
  /\ task = NoTask
  /\ results \in RecordLists(MaxRecords)
  /\ all_analyses = AnalysesFromResults(results)
  /\ common_columns = EmptyDict
  /\ result1 = Unbound /\ result1_str = Unbound
  /\ result2 = Unbound /\ result2_str = Unbound
  /\ result3 = Unbound /\ result3_str = Unbound
  /\ calls = <<>>
  /\ ret = Pending
  /\ summary = <<>>
  /\ summary_json = <<>>

\* crewai_test.py line 1453 / 870-1019
FormatText ==
  /\ pc \in {"format", "json_done"}
  /\ summary' = format_consolidated_summary(results, all_analyses)
  /\ pc' = IF pc = "format" THEN "text_done" ELSE "formatted"
  /\ UNCHANGED <<entry, heuristics, llm_ok, csv, files, idx, analysis, task,
                 all_analyses, common_columns, results, locals, calls, ret, summary_json>>

\* api.py line 190 / crewai_test.py 1022-1188
FormatJson ==
  /\ pc \in {"format", "text_done"}
  /\ summary_json' = format_consolidated_summary_json(results, all_analyses)
  /\ pc' = IF pc = "format" THEN "json_done" ELSE "formatted"
  /\ UNCHANGED <<entry, heuristics, llm_ok, csv, files, idx, analysis, task,
                 all_analyses, common_columns, results, locals, calls, ret, summary>>

NextFmt == FormatText \/ FormatJson

SpecFmt == InitFmt /\ [][NextFmt]_vars

(***************************************************************************)
(* The formatters on one record of every type, with a column text that     *)
(* names a column for every field kind.                                    *)
(***************************************************************************)
\* a column text with a line for each of the ten field kinds
AllKindsText ==
  L_HOLE_NAME \o <<SP, "DHID", NL>>
    \o L_COORDINATES \o <<SP, "X", "=", "XCOLLAR", ",", SP, "Y", "=", "YCOLLAR", ",", SP,
                          "Z", "=", "ZCOLLAR", NL>>
    \o L_DIP \o <<SP, "DIP", NL>>
    \o L_AZIMUTH \o <<SP, "BRG", NL>>
    \o <<"DEPTH", SP, "(", "AT", ")", ":", SP, "AT", NL>>
    \o L_INTERVALS \o <<SP, "FROM", "=", "FROM", ",", SP, "TO", "=", "TO", NL>>
    \o L_GRADES \o <<SP, "[", "Au", ",", SP, "Cu", "]", NL>>
    \o L_DENSITY \o <<SP, "SG", NL>>
    \o L_LITHOLOGY \o <<SP, "LITO">>

\* type texts: a label for each known type, a label in upper case and one in
\* lower case, a label with an unknown type, and the sentinel of a failed
\* classify stage
RelTypeTexts ==
  { L_FILE_TYPE \o <<SP, KnownTypes[k]>> : k \in 1..Len(KnownTypes) }
  \cup { L_FILE_TYPE \o <<SP, "COLLAR">>, L_FILE_TYPE \o <<SP, "collar">>,
         L_FILE_TYPE \o <<SP, "Unknown">>, API_Sentinel1 }

\* column texts: those of the identify stage, a text with a line for every
\* kind, a grades line that reports no column, and the empty text
RelColumnTexts ==
  ColumnTexts \cup {AllKindsText, L_GRADES \o <<SP, "NOT", SP, "FOUND">>, <<>>}

RelRecords ==
  { [file |-> 1, type |-> t, columns |-> c, validation |-> v,
     analysis |-> analyze_csv_structure(1, cols)] :
      t \in RelTypeTexts, c \in RelColumnTexts, v \in ValidationTexts,
      cols \in CsvChoices \ {<<Malformed>>} }

InitRel ==
  /\ entry = "summary"
  /\ heuristics = HeuristicsCatalog
  /\ llm_ok = TRUE
  /\ csv = <<>>
  /\ pc = "format"
  /\ files = <<>>
  /\ idx = 0
  /\ analysis = NoAnalysis
  /\ task = NoTask
  /\ results \in {<<r>> : r \in RelRecords}
  /\ all_analyses = AnalysesFromResults(results)
  /\ common_columns = EmptyDict
  /\ result1 = Unbound /\ result1_str = Unbound
  /\ result2 = Unbound /\ result2_str = Unbound
  /\ result3 = Unbound /\ result3_str = Unbound
  /\ calls = <<>>
  /\ ret = Pending
  /\ summary = <<>>
  /\ summary_json = <<>>

SpecRel == InitRel /\ [][NextFmt]_vars

(***************************************************************************)
(* The type extractor and the column parser on stage texts.                *)
(***************************************************************************)
\* the spellings of the five type names, in the order of KnownTypes
TypeSpellings ==
  << {"Collar", "collar", "COLLAR"}, {"Survey", "survey", "SURVEY"},
     {"Assay", "assay", "ASSAY"}, {"Lithology", "lithology", "LITHOLOGY"},
     {"Density", "density", "DENSITY"} >>

LabelSpellings ==
  { L_FILE_TYPE, <<"file", SP, "type", ":">>, <<"File", SP, "Type", ":">> }

\* type texts that carry a FILE TYPE label
LabelledTexts ==
  { before \o label \o <<SP, name>> \o after :
      before \in {<<>>, <<"Answer", NL>>},
      label \in LabelSpellings,
      name \in UNION {TypeSpellings[k] : k \in 1..Len(TypeSpellings)},
      after \in {<<>>, <<NL, "CONFIDENCE", ":", SP, "high">>} }

\* the longest type text without a label, in words
MaxWords == 3

UnlabelledWords ==
  {"lithology", "LITHOLOGY", "LITHOLOGY_CODE", "collar", "assay", "Survey", "density", "logs"}

\* type texts without a label: up to n words with a blank between them
RECURSIVE UnlabelledTexts(_)
UnlabelledTexts(n) ==
  IF n = 1 THEN {<<w>> : w \in UnlabelledWords}
  ELSE UnlabelledTexts(n - 1)
       \cup {t \o <<SP, w>> : t \in {u \in UnlabelledTexts(n - 1) : Len(u) = 2 * n - 3},
                               w \in UnlabelledWords}

ParseTypeInputs == LabelledTexts \cup UnlabelledTexts(MaxWords)

\* the labels of the single-value slots, with the slot each one fills
SingleLabels ==
  << [label |-> L_HOLE_NAME, slot |-> "hole_id"],
     [label |-> L_DIP,       slot |-> "dip"],
     [label |-> L_AZIMUTH,   slot |-> "azimuth"],
     [label |-> L_DEPTH_AT,  slot |-> "depth"],
     [label |-> L_DENSITY,   slot |-> "density"],
     [label |-> L_LITHOLOGY, slot |-> "lithology"] >>

\* column names as a CSV header can hold them
HeaderNames == {DHID, ATcol, <<"Au_ppm">>, <<"HOLE", "-", "ID">>}

Comments == {<<"unique", SP, "per", SP, "row">>, <<"UTM", SP, "coords">>}

\* what follows the line in the column text: nothing, or a line that lists
\* the columns of the file
AfterLine == {<<>>, <<NL, "columns", ":", SP, "DHID", ",", SP, "AT", ",", SP, "DEPTH">>}

\* 'L: c (confidence: high) - comment'
SingleLines ==
  { SingleLabels[k].label \o <<SP>> \o c \o Conf \o <<SP, "-", SP>> \o comment \o after :
      k \in 1..Len(SingleLabels), c \in HeaderNames, comment \in Comments, after \in AfterLine }

\* 'L: NOT FOUND'
NotFoundLines ==
  { SingleLabels[k].label \o <<SP, "NOT", SP, "FOUND">> \o after :
      k \in 1..Len(SingleLabels), after \in AfterLine }

AxisNames ==
  { <<XCOLLAR, YCOLLAR, ZCOLLAR>>,
    << <<"EAST">>, <<"NORTH">>, <<"RL">> >>,
    << <<"X">>, <<"Y">>, <<"Z">> >>,
    << <<"X", "-", "UTM">>, <<"Y", "-", "UTM">>, <<"Z", "-", "UTM">> >> }

\* 'COORDINATES: X=a, Y=b, Z=c - comment'
CoordinateLine(n, comment) ==
  L_COORDINATES \o <<SP, "X", "=">> \o n[1] \o <<",", SP, "Y", "=">> \o n[2]
    \o <<",", SP, "Z", "=">> \o n[3] \o <<SP, "-", SP>> \o comment

CoordinateLines ==
  { CoordinateLine(n, comment) \o after :
      n \in AxisNames, comment \in Comments, after \in AfterLine }

\* the line of every field kind without a comment: 'L: value'
KindLines ==
  { L_HOLE_NAME \o <<SP>> \o DHID,
    L_COORDINATES \o <<SP, "X", "=", "XCOLLAR", ",", SP, "Y", "=", "YCOLLAR", ",", SP,
                      "Z", "=", "ZCOLLAR">>,
    L_GRADES \o <<SP, "[", "Au_ppm", ",", SP, "Cu_pct", "]">>,
    L_INTERVALS \o <<SP, "FROM", "=", "FROM", ",", SP, "TO", "=", "TO">>,
    L_DIP \o <<SP>> \o DIPcol,
    L_AZIMUTH \o <<SP>> \o BRG,
    L_DEPTH_AT \o <<SP>> \o ATcol,
    L_DENSITY \o <<SP, "SG">>,
    L_LITHOLOGY \o <<SP, "ROCK">> }

\* what the lines after the labelled one can hold: nothing, a line without a
\* hyphen, a line with a hyphen between blanks, a line with a hyphenated word
LaterLines ==
  { <<>>,
    <<NL, "columns", SP, "follow">>,
    <<NL, "note", SP, "-", SP, "see", SP, "header">>,
    <<NL, "well", "-", "known", SP, "names">> }

\* 'L: value (confidence: high)' with no ' - ' on the line, and later lines
NoDelimiterLines ==
  { line \o Conf \o later : line \in KindLines, later \in LaterLines }

\* the longest list of grade columns
MaxGrades == 3

GradeNames == { <<"Au_ppm">>, <<"Cu_pct">>, <<"Ag">> }

\* the lists of up to n grade column names
RECURSIVE GradeLists(_)
GradeLists(n) ==
  IF n = 0 THEN {<<>>}
  ELSE GradeLists(n - 1)
       \cup {Append(l, g) : l \in {m \in GradeLists(n - 1) : Len(m) = n - 1},
                            g \in GradeNames}

\* 'GRADE COLUMNS: [A, B, C]'
BracketedGrades(names) == L_GRADES \o <<SP, "[">> \o JoinComma(names) \o <<"]">>

\* 'GRADE COLUMNS: A, B, C'
BareGrades(names) == L_GRADES \o <<SP>> \o JoinComma(names)

\* ",".join(names)
RECURSIVE JoinTight(_)
JoinTight(l) ==
  IF l = <<>> THEN <<>>
  ELSE IF Len(l) = 1 THEN l[1]
  ELSE l[1] \o <<",">> \o JoinTight(Tail(l))

\* 'GRADE COLUMNS: A,B,C'
TightGrades(names) == L_GRADES \o <<SP>> \o JoinTight(names)

\* what follows the list on the grades line
AfterGrades == { <<>>, Conf \o <<SP, "-", SP, "assay", SP, "values">> }

GradeLines ==
  { line \o after :
      line \in UNION { {BracketedGrades(g), BareGrades(g), TightGrades(g)} :
                        g \in GradeLists(MaxGrades) \ {<<>>} },
      after \in AfterGrades }

\* 'GRADE COLUMNS: NOT FOUND'
GradesNotFound == L_GRADES \o <<SP, "NOT", SP, "FOUND">>

\* a stage that answered with the empty string
EmptyText == <<>>

ParseColumnInputs ==
  SingleLines \cup NotFoundLines \cup CoordinateLines \cup NoDelimiterLines
  \cup GradeLines \cup {GradesNotFound, EmptyText}

\* one stage text at a time: a type text or a column text
InitParse ==
  /\ entry = "parse"
  /\ heuristics = HeuristicsCatalog
  /\ llm_ok = TRUE
  /\ csv = <<>>
  /\ pc = "text"
  /\ files = <<>>
  /\ idx = 0
  /\ analysis = NoAnalysis
  /\ task = NoTask
  /\ all_analyses = EmptyDict
  /\ common_columns = EmptyDict
  /\ results = <<>>
  /\ result1 = Unbound /\ result2 = Unbound
  /\ \/ result1_str \in ParseTypeInputs /\ result2_str = Unbound
     \/ result1_str = Unbound /\ result2_str \in ParseColumnInputs
  /\ result3 = Unbound /\ result3_str = Unbound
  /\ calls = <<>>
  /\ ret = Pending
  /\ summary = <<>>
  /\ summary_json = <<>>

\* line 433, 883: the type extractor on a type text
ExtractFileType ==
  /\ pc = "text"
  /\ result1_str # Unbound
  /\ ret' = [kind |-> "file_type", value |-> extract_file_type_from_result(result1_str)]
  /\ pc' = "parsed"
  /\ UNCHANGED <<entry, heuristics, llm_ok, csv, files, idx, analysis, task,
                 all_analyses, common_columns, results, locals, calls, summary,
                 summary_json>>

\* line 884: the column parser on a column text
ParseColumns ==
  /\ pc = "text"
  /\ result2_str # Unbound
  /\ ret' = [kind |-> "columns", value |-> parse_column_identification_result(result2_str)]
  /\ pc' = "parsed"
  /\ UNCHANGED <<entry, heuristics, llm_ok, csv, files, idx, analysis, task,
                 all_analyses, common_columns, results, locals, calls, summary,
                 summary_json>>

NextParse == ExtractFileType \/ ParseColumns

SpecParse == InitParse /\ [][NextParse]_vars

(***************************************************************************)
(* The column-identification prompt builder on type texts and catalogs.    *)
(***************************************************************************)
\* the kinds a required-columns map of the catalog can have an entry for
RequiredKinds ==
  {"hole_id", "dip", "azimuth", "depth", "coordinates", "element_columns",
   "depth_intervals", "lithology_code", "density"}

\* what load_heuristics() can return: nothing, the catalog, or a catalog
\* that requires any other set of kinds for one of its types
Catalogs ==
  {NoHeuristics, HeuristicsCatalog}
  \cup { [HeuristicsCatalog EXCEPT !.file_types[t] = required] :
           t \in DOMAIN HeuristicsCatalog.file_types, required \in SUBSET RequiredKinds }

\* type texts: those of the formatters, a label in lower case, a text that
\* mentions a type without a label, and a text that names no type
PromptTypeTexts ==
  RelTypeTexts
  \cup { <<"file", SP, "type", ":", SP, "survey">>,
         <<"a", SP, "lithology", SP, "log">>,
         <<"drill", SP, "holes">> }

InitPrompt ==
  /\ entry = "prompt"
  /\ heuristics \in Catalogs
  /\ llm_ok = TRUE
  /\ csv = << <<DHID, ATcol, DIPcol, BRG>> >>
  /\ pc = "task2"
  /\ files = <<1>>
  /\ idx = 1
  /\ analysis = analyze_csv_structure(1, csv[1])
  /\ task = NoTask
  /\ all_analyses = FirstPass(csv)
  /\ common_columns = EmptyDict
  /\ results = <<>>
  /\ result1 = Unbound /\ result1_str \in PromptTypeTexts
  /\ result2 = Unbound /\ result2_str = Unbound
  /\ result3 = Unbound /\ result3_str = Unbound
  /\ calls = <<>>
  /\ ret = Pending
  /\ summary = <<>>
  /\ summary_json = <<>>

\* lines 1366 and 1542: the prompt of the identify stage
BuildColumnTask ==
  /\ pc = "task2"
  /\ task' = create_column_identification_task(analysis, result1_str, heuristics, common_columns)
  /\ pc' = "built"
  /\ UNCHANGED <<entry, heuristics, llm_ok, csv, files, idx, analysis,
                 all_analyses, common_columns, results, locals, calls, ret, summary,
                 summary_json>>

NextPrompt == BuildColumnTask

SpecPrompt == InitPrompt /\ [][NextPrompt]_vars

(***************************************************************************)
(* Column statistics of analyze_csv_structure, lines 84-112.  The rows of  *)
(* one column are a list of runs [value, n]: n rows in a row that hold     *)
(* the value; NaN is a missing value.  Of the statistics only             *)
(* unique_count, total_count and is_categorical are modelled.              *)
(***************************************************************************)
\* pd.read_csv(file_path, nrows=100)
nrows == 100

NaN == "<NaN>"

\* the first n rows of a column
RECURSIVE HeadRows(_, _)
HeadRows(runs, n) ==
  IF runs = <<>> \/ n = 0 THEN <<>>
  ELSE IF Head(runs).n >= n THEN <<[value |-> Head(runs).value, n |-> n]>>
  ELSE <<Head(runs)>> \o HeadRows(Tail(runs), n - Head(runs).n)

\* Series.dropna()
RECURSIVE dropna(_)
dropna(runs) ==
  IF runs = <<>> THEN <<>>
  ELSE (IF Head(runs).value = NaN THEN <<>> ELSE <<Head(runs)>>) \o dropna(Tail(runs))

\* len(col_data)
RECURSIVE LenRows(_)
LenRows(runs) == IF runs = <<>> THEN 0 ELSE Head(runs).n + LenRows(Tail(runs))

\* Series.nunique()
nunique(runs) == Cardinality({runs[k].value : k \in 1..Len(runs)})

\* the e with 2^e <= u < 2^(e+1), for u >= 1
RECURSIVE Exponent(_)
Exponent(u) == IF u < 2 THEN 0 ELSE 1 + Exponent(u \div 2)

\* unique_count <= total_count * 0.1
AtMostTenthOf(unique_count, total_count) == 10 * unique_count <= total_count

\* unique_count < total_count * 0.1 in binary64.  The stored 0.1 exceeds one
\* tenth by 2^-55 / 5, so the exact product is total_count / 10 plus
\* total_count * 2^-55 / 5; it is rounded to the nearest double.  When
\* total_count is not ten times unique_count the product is at least 0.1 away
\* from unique_count and rounding cannot change the comparison.  When it is,
\* the product rounds to a double above unique_count only if the excess is
\* more than half the spacing 2^(e-52) of the doubles at unique_count, that
\* is if total_count > 20 * 2^e.
LessThanTenthOf(unique_count, total_count) ==
  IF total_count # 10 * unique_count
    THEN 10 * unique_count < total_count
    ELSE unique_count > 0 /\ total_count > 20 * 2 ^ Exponent(unique_count)

\* lines 90-110: the statistics of one column, absent when every sampled
\* value is missing
column_stats(col, runs) ==
  The({ IF LenRows(col_data) > 0
          THEN [c \in {col} |->
                  [unique_count   |-> nunique(col_data),
                   total_count    |-> LenRows(col_data),
                   is_categorical |-> /\ LessThanTenthOf(nunique(col_data), LenRows(col_data))
                                      /\ LenRows(col_data) > 10]]
          ELSE EmptyDict :
        col_data \in {dropna(HeadRows(runs, nrows))} })

\* the longest column, in runs
MaxRuns == 3

RunLengths == {1, 10, 11, 100}

RunValues == {"a", "b", "c", NaN}

\* the columns of up to n runs
RECURSIVE ColumnsOfRuns(_)
ColumnsOfRuns(n) ==
  IF n = 0 THEN {<<>>}
  ELSE ColumnsOfRuns(n - 1)
       \cup {Append(l, [value |-> v, n |-> k]) :
               l \in {m \in ColumnsOfRuns(n - 1) : Len(m) = n - 1},
               v \in RunValues, k \in RunLengths}

\* a file of one column, DHID, given by its rows
InitStats ==
  /\ entry = "analyze_csv_structure"
  /\ heuristics = HeuristicsCatalog
  /\ llm_ok = TRUE
  /\ csv \in {<<col>> : col \in ColumnsOfRuns(MaxRuns)}
  /\ pc = "file"
  /\ files = <<>>
  /\ idx = 0
  /\ analysis = NoAnalysis
  /\ task = NoTask
  /\ all_analyses = EmptyDict
  /\ common_columns = EmptyDict
  /\ results = <<>>
  /\ result1 = Unbound /\ result1_str = Unbound
  /\ result2 = Unbound /\ result2_str = Unbound
  /\ result3 = Unbound /\ result3_str = Unbound
  /\ calls = <<>>
  /\ ret = Pending
  /\ summary = <<>>
  /\ summary_json = <<>>

\* lines 73-114
AnalyzeColumns ==
  /\ pc = "file"
  /\ analysis' = [filename |-> 1, columns |-> <<DHID>>,
                   column_stats |-> column_stats(DHID, csv[1])]
  /\ pc' = "analyzed"
  /\ UNCHANGED <<entry, heuristics, llm_ok, csv, files, idx, task, all_analyses,
                 common_columns, results, locals, calls, ret, summary, summary_json>>

NextStats == AnalyzeColumns

SpecStats == InitStats /\ [][NextStats]_vars

(***************************************************************************)
(* Properties of the entry points.                                         *)
(***************************************************************************)
\* the file keys whose fingerprint succeeds, in discovery order
Fingerprinted == KeysInOrder(DOMAIN FirstPass(csv))

\* the record list an entry point handed back (run_analysis hands back a pair
\* whose first component is the list)
Returned ==
  IF ret.kind = "list" THEN ret.value
  ELSE IF ret.kind = "tuple" THEN ret.value[1]
  ELSE <<>>

FilesOf(rs) == [k \in 1..Len(rs) |-> rs[k].file]

\* the sentinel of a stage in the entry point that runs
Sentinel(stage) ==
  IF entry = "run_analysis"
    THEN <<RA_Sentinel1, RA_Sentinel2, RA_Sentinel3>>[stage]
    ELSE <<API_Sentinel1, API_Sentinel2, API_Sentinel3>>[stage]

\* the kickoff() calls of one stage for one file
CallsOf(key, stage) ==
  {k \in 1..Len(calls) : calls[k].file = key /\ calls[k].task.stage = stage}

\* the text a stage produced for a file: the answer, or the stage's sentinel
\* when the call raised
OwnText(key, stage) ==
  LET c == calls[CHOOSE k \in CallsOf(key, stage) : TRUE]
  IN  IF c.out = Raised THEN Sentinel(stage) ELSE c.out

\* the field of a record that holds the text of a stage
FieldOf(r, stage) ==
  IF stage = 1 THEN r.type ELSE IF stage = 2 THEN r.columns ELSE r.validation

\* C1: with the inference capability and the catalog available, whichever
\* inference calls raise, no exception escapes the entry point and the
\* returned list holds one record for every file whose fingerprint succeeded.
C1_StageFailureIsLocal ==
  (pc = "done" /\ llm_ok /\ heuristics.loaded)
    => /\ ret.kind # "exception"
       /\ FilesOf(Returned) = Fingerprinted

\* C2: when the inference call of a stage raised for a file, the field of
\* that file's record for the stage is the stage's sentinel string.
C2_SentinelOnFailure ==
  \A k \in 1..Len(results) : \A stage \in 1..3 :
     (\E c \in CallsOf(results[k].file, stage) : calls[c].out = Raised)
       => FieldOf(results[k], stage) = Sentinel(stage)

\* C3: the validation task built for a file embeds that file's own type-stage
\* text and its own column-stage text (the sentinel when the stage raised).
C3_ValidationEmbedsOwnTexts ==
  \A k \in 1..Len(calls) :
     calls[k].task.stage = 3
       => /\ calls[k].task.file_type_result = OwnText(calls[k].file, 1)
          /\ calls[k].task.column_result = OwnText(calls[k].file, 2)

\* C4: when the catalog could not be loaded the batch does not fail: no
\* prompt builder raises, and every fingerprinted file goes through the three
\* stages and yields a record.
C4_NoCatalogFallback ==
  (pc = "done" /\ llm_ok /\ ~heuristics.loaded)
    => /\ ret.kind # "exception"
       /\ FilesOf(Returned) = Fingerprinted
       /\ \A k \in 1..Len(Fingerprinted) : \A stage \in 1..3 :
             CallsOf(Fingerprinted[k], stage) # {}

\* the file keys whose fingerprint is an error marker
Unreadable == {k \in 1..Len(csv) : "error" \in DOMAIN analyze_csv_structure(k, csv[k])}

\* C5: a file whose fingerprint is an error marker causes no inference call,
\* is left out of the correlator input and contributes no record, and the
\* result holds records exactly for the other files, in discovery order.
C5_UnreadableFileSkipped ==
  (pc = "done" /\ llm_ok /\ Unreadable # {})
    => /\ \A k \in 1..Len(calls) : calls[k].file \notin Unreadable
       /\ DOMAIN all_analyses \cap Unreadable = {}
       /\ FilesOf(Returned) = Fingerprinted

\* C6: an entry point returns the empty list when the directory holds no CSV
\* file, and a list of records in every other run that is not aborted.
C6_ReturnsList ==
  (pc = "done" /\ llm_ok /\ ret.kind # "exception")
    => /\ ret.kind = "list"
       /\ Len(csv) = 0 => ret.value = <<>>

\* C7: every record of the batch result holds the file key, the three stage
\* texts and the fingerprint, and the summary printed from the result lists
\* the original columns of every file.
C7_RecordHasFiveComponents ==
  /\ \A k \in 1..Len(results) :
        {"file", "type", "columns", "validation", "analysis"} \subseteq DOMAIN results[k]
  /\ (pc = "done" /\ ret.kind = "tuple")
       => \A k \in 1..Len(results) :
             \A c \in Range(all_analyses[results[k].file].columns) :
                \E i \in 1..Len(summary) : c \in {summary[i].field, summary[i].found}

(***************************************************************************)
(* Properties of the summary formatters.                                   *)
(***************************************************************************)
\* a row names column c: as the found value of a field row (one of the
\* columns of a Grades row), or as an '(original column)' row
Names(row, c) ==
  IF row.found = OriginalColumn THEN row.field = c
  ELSE IF row.field = <<"Grades">> THEN \E i \in 1..Len(row.found) : <<row.found[i]>> = c
  ELSE row.found = c

RowsNaming(rows, c) == {i \in 1..Len(rows) : Names(rows[i], c)}

\* C8: in the output of each formatter every column of a file's fingerprint
\* is named by exactly one of the rows emitted for that file.
C8_EveryColumnOnce ==
  pc = "formatted" =>
    \A identified_map \in {BuildIdentifiedMap(results, EmptyDict)} :
      \A k \in 1..Len(results) :
        \A text \in {TextRowsOfRecord(results[k], all_analyses, identified_map)},
           json \in {JsonRowsOfRecord(results[k], all_analyses)} :
          \A c \in Range(results[k].analysis.columns) :
             /\ Cardinality(RowsNaming(text, c)) = 1
             /\ Cardinality(RowsNaming(json, c)) = 1

\* C9: the text table and the record list hold the same rows in the same
\* order: same file type, field label, found value and comment.
C9_TextAndJsonAgree ==
  pc = "formatted" => summary = summary_json

\* the parser left a value absent: the slot holds None, or there is no slot
Absent(v) == v = PyNone \/ v = NOT_FOUND

AxisLabels ==
  [x |-> <<"Coordinates", SP, "X">>, y |-> <<"Coordinates", SP, "Y">>,
   z |-> <<"Coordinates", SP, "Z">>]

\* rows holds, under this label, the row of a field that was not identified
ShowsNotFound(rows, label) ==
  \E i \in 1..Len(rows) :
     rows[i].field = label /\ rows[i].found = NOT_FOUND /\ rows[i].comment = NotIdentified

\* C10: the row of every relevant single-value kind and coordinate axis whose
\* value the parser left absent shows 'NOT FOUND' with the comment
\* 'Not identified', and the text 'None' is never taken for an identified column.
C10_AbsentShowsNotFound ==
  pc = "formatted" =>
    \A k \in 1..Len(results) :
      \A ft \in {FileTypeOf(results[k])}, parsed \in {ParsedOf(results[k])} :
        \A rel \in {get_relevant_fields_for_file_type(ft)} :
          \A rows \in {FieldRows(ft, parsed, rel)} :
            /\ \A j \in 1..Len(SingleKinds) :
                  (SingleKinds[j].kind \in rel /\ Absent(FoundOf(parsed, SingleKinds[j].kind)))
                    => ShowsNotFound(rows, SingleKinds[j].label)
            /\ \A a \in {"x", "y", "z"} :
                  ("coordinates" \in rel /\ Absent(AxisOf(parsed, a)))
                    => ShowsNotFound(rows, AxisLabels[a])
            /\ <<"None">> \notin JsonIdentifiedCols(parsed, rel)

\* the row labels of a field kind
C11_Labels ==
  [hole_id     |-> {<<"Hole", SP, "ID">>},
   coordinates |-> {<<"Coordinates", SP, "X">>, <<"Coordinates", SP, "Y">>,
                    <<"Coordinates", SP, "Z">>},
   dip         |-> {<<"DIP">>},
   azimuth     |-> {<<"Azimuth">>},
   depth       |-> {<<"Depth", SP, "(", "AT", ")">>},
   from        |-> {<<"FROM", SP, "(", "depth", ")">>},
   to          |-> {<<"TO", SP, "(", "depth", ")">>},
   grades      |-> {<<"Grades">>},
   density     |-> {<<"Density">>},
   lithology   |-> {<<"Lithology">>}]

\* the kinds a type may show
C11_Table ==
  (<<"Collar">> :> {"hole_id", "coordinates"})
  @@ (<<"Survey">> :> {"hole_id", "dip", "azimuth", "depth"})
  @@ (<<"Assay">> :> {"hole_id", "from", "to", "grades"})
  @@ (<<"Lithology">> :> {"hole_id", "from", "to", "lithology"})
  @@ (<<"Density">> :> {"hole_id", "from", "to", "density"})

\* a row that is not an '(original column)' row shows a kind of its type
C11_RowAllowed(row) ==
  row.found # OriginalColumn
    => /\ row.file_type \in DOMAIN C11_Table
       /\ \E kind \in C11_Table[row.file_type] : row.field \in C11_Labels[kind]

\* C11: every field row either formatter emits carries one of the five type
\* names and the label of a kind listed for that type, whatever kinds the
\* column text names; a record of any other type gets no field row.
C11_OnlyRelevantKinds ==
  pc = "formatted" =>
    /\ \A i \in 1..Len(summary) : C11_RowAllowed(summary[i])
    /\ \A i \in 1..Len(summary_json) : C11_RowAllowed(summary_json[i])

\* a Collar record whose column text names a column for every kind, shown
\* with its four Collar rows and nothing else but original columns
C11_Witness ==
  /\ pc = "formatted"
  /\ results[1].type = L_FILE_TYPE \o <<SP, "Collar">>
  /\ results[1].columns = AllKindsText
  /\ ParsedOf(results[1]).dip.found = <<"DIP">>
  /\ Cardinality({i \in 1..Len(summary_json) : summary_json[i].found # OriginalColumn}) = 4
  /\ Cardinality({i \in 1..Len(summary) : summary[i].found # OriginalColumn}) = 4

\* the batch of the example: one Collar file with its four columns, labelled
\* Collar by the type text, with the two-line column text
C12_Batch ==
  /\ Len(results) = 1
  /\ results[1].analysis.columns = <<DHID, XCOLLAR, YCOLLAR, ZCOLLAR>>
  /\ results[1].type = L_FILE_TYPE \o <<SP, "Collar">>
  /\ results[1].columns =
       L_HOLE_NAME \o <<SP, "DHID">> \o Conf \o <<SP, "-", SP, "unique", NL>>
         \o L_COORDINATES \o <<SP, "X", "=", "XCOLLAR", ",", SP, "Y", "=", "YCOLLAR", ",", SP,
                               "Z", "=", "ZCOLLAR">> \o Conf \o <<SP, "-", SP, "utm">>

\* the label and the found value of every row
C12_Pairs(rows) == [i \in 1..Len(rows) |-> <<rows[i].field, rows[i].found>>]

C12_FourRows ==
  << <<<<"Hole", SP, "ID">>, DHID>>,
     <<<<"Coordinates", SP, "X">>, XCOLLAR>>,
     <<<<"Coordinates", SP, "Y">>, YCOLLAR>>,
     <<<<"Coordinates", SP, "Z">>, ZCOLLAR>> >>

\* C12: for the batch of the example each formatter yields exactly four rows,
\* Hole ID to DHID and Coordinates X, Y, Z to XCOLLAR, YCOLLAR, ZCOLLAR, all of
\* type Collar, and no '(original column)' row.
C12_CollarExample ==
  (pc = "formatted" /\ C12_Batch)
    => /\ C12_Pairs(summary_json) = C12_FourRows
       /\ C12_Pairs(summary) = C12_FourRows
       /\ \A i \in 1..Len(summary_json) : summary_json[i].file_type = <<"Collar">>

\* the example batch, formatted
C12_Witness ==
  /\ pc = "formatted"
  /\ C12_Batch
  /\ Len(summary_json) = 4
  /\ ParsedOf(results[1]).coordinates.z = ZCOLLAR

(***************************************************************************)
(* Properties of the type extractor and the column parser.                 *)
(***************************************************************************)
\* the text holds, in some letter case, the label FILE TYPE: followed by a
\* blank and the type name
C13_HasLabelFor(text, name) ==
  \E i \in 1..Len(text) :
     /\ i + Len(L_FILE_TYPE) + 1 <= Len(text)
     /\ UpperSeq(SubSeq(text, i, i + Len(L_FILE_TYPE) + 1))
          = UpperSeq(L_FILE_TYPE \o <<SP, name>>)

\* C13: for a text that holds the label FILE TYPE: followed by one of the
\* five type names, in any letter case, the extractor returns that type name
\* in its canonical spelling.
C13_LabelGivesCanonicalName ==
  (pc = "parsed" /\ ret.kind = "file_type")
    => \A k \in 1..Len(KnownTypes) :
          C13_HasLabelFor(result1_str, KnownTypes[k]) => ret.value = <<KnownTypes[k]>>

\* the text holds no FILE TYPE: label
C14_NoLabel(text) == \A i \in 1..Len(text) : ~MatchLit(text, i, L_FILE_TYPE)

\* the text holds the type name as a substring, in any letter case
C14_Mentions(text, name) == \E i \in 1..Len(text) : ContainsType(text[i], name)

\* C14 as stated: for a text without a FILE TYPE: label that holds
\* 'lithology' anywhere, the extractor returns Lithology, whatever else the
\* text holds.
C14_LithologyAnywhere ==
  (pc = "parsed" /\ ret.kind = "file_type"
     /\ C14_NoLabel(result1_str) /\ C14_Mentions(result1_str, "Lithology"))
    => ret.value = <<"Lithology">>

\* C14 as the code has it: for a text without a FILE TYPE: label that holds
\* 'lithology' and none of 'collar', 'survey', 'assay', the extractor returns
\* Lithology, whatever else the text holds.
C14_LithologyUnlessEarlierType ==
  (pc = "parsed" /\ ret.kind = "file_type"
     /\ C14_NoLabel(result1_str) /\ C14_Mentions(result1_str, "Lithology")
     /\ ~C14_Mentions(result1_str, "Collar")
     /\ ~C14_Mentions(result1_str, "Survey")
     /\ ~C14_Mentions(result1_str, "Assay"))
    => ret.value = <<"Lithology">>

\* a text without a label that holds 'density' before 'lithology' and gives
\* Lithology
C14_Witness ==
  /\ pc = "parsed" /\ ret.kind = "file_type"
  /\ result1_str = <<"density", SP, "logs", SP, "LITHOLOGY_CODE">>
  /\ ret.value = <<"Lithology">>

\* C15: for each single-value label L, every column name c and every
\* comment, the line 'L: c (confidence: high) - comment' makes the parser
\* return found = c and comment = the text after ' - ' up to the end of the
\* line, in the slot of L.
C15_SingleLineParsed ==
  (pc = "parsed" /\ ret.kind = "columns")
    => \A k \in 1..Len(SingleLabels) : \A c \in HeaderNames :
         \A comment \in Comments : \A after \in AfterLine :
           result2_str = SingleLabels[k].label \o <<SP>> \o c \o Conf
                           \o <<SP, "-", SP>> \o comment \o after
             => /\ ret.value[SingleLabels[k].slot].found = c
                /\ ret.value[SingleLabels[k].slot].comment = comment

\* C16: for each single-value label L the text 'L: NOT FOUND' leaves the
\* slot of L absent: found is None, not the word 'NOT' and not a column name
\* picked up by a scan of the rest of the text.
C16_NotFoundIsAbsent ==
  (pc = "parsed" /\ ret.kind = "columns")
    => \A k \in 1..Len(SingleLabels) : \A after \in AfterLine :
         result2_str = SingleLabels[k].label \o <<SP, "NOT", SP, "FOUND">> \o after
           => ret.value[SingleLabels[k].slot].found = PyNone

\* 'DEPTH (AT): NOT FOUND' followed by a line that names the columns AT and
\* DEPTH, parsed with the depth slot absent
C16_Witness ==
  /\ pc = "parsed" /\ ret.kind = "columns"
  /\ result2_str = L_DEPTH_AT \o <<SP, "NOT", SP, "FOUND", NL, "columns", ":", SP, "DHID",
                                  ",", SP, "AT", ",", SP, "DEPTH">>
  /\ ret.value.depth.found = PyNone
  /\ ret.value.hole_id.found = PyNone

\* C17: for all column names a, b, c and every comment, the line
\* 'COORDINATES: X=a, Y=b, Z=c - comment' makes the parser return x = a,
\* y = b, z = c and the one comment 'comment'.
C17_CoordinateLineParsed ==
  (pc = "parsed" /\ ret.kind = "columns")
    => \A n \in AxisNames : \A comment \in Comments : \A after \in AfterLine :
         result2_str = CoordinateLine(n, comment) \o after
           => /\ ret.value.coordinates.x = n[1]
              /\ ret.value.coordinates.y = n[2]
              /\ ret.value.coordinates.z = n[3]
              /\ ret.value.coordinates.comment = comment

(***************************************************************************)
(* Properties of the first pass.                                           *)
(***************************************************************************)
\* the fingerprinted files of the batch that hold column c
C18_FilesWith(c) ==
  {k \in 1..Len(csv) : k \notin Unreadable /\ \E i \in 1..Len(csv[k]) : csv[k][i] = c}

\* every column name of a fingerprinted file
C18_ColumnNames ==
  UNION { {csv[k][i] : i \in 1..Len(csv[k])} : k \in (1..Len(csv)) \ Unreadable }

\* C18: after the first pass the common-columns index has an entry for a
\* column name exactly when the name occurs in at least two fingerprinted
\* files; the entry's count is the number of those files and its files are
\* exactly their keys; with one fingerprinted file the index is empty.
C18_CommonColumnsExact ==
  pc = "loop" =>
    /\ DOMAIN common_columns = {c \in C18_ColumnNames : Cardinality(C18_FilesWith(c)) >= 2}
    /\ \A c \in DOMAIN common_columns :
          /\ common_columns[c].count = Cardinality(C18_FilesWith(c))
          /\ Len(common_columns[c].files) = common_columns[c].count
          /\ {common_columns[c].files[i] : i \in 1..Len(common_columns[c].files)}
               = C18_FilesWith(c)
    /\ Cardinality((1..Len(csv)) \ Unreadable) = 1 => common_columns = EmptyDict

\* three fingerprinted files, XCOLLAR in the first and the third only, DHID
\* in all three
C18_Witness ==
  /\ pc = "loop"
  /\ Len(csv) = 3 /\ Unreadable = {}
  /\ XCOLLAR \in DOMAIN common_columns
  /\ common_columns[XCOLLAR].count = 2
  /\ common_columns[XCOLLAR].files = <<1, 3>>
  /\ common_columns[DHID].count = 3

(***************************************************************************)
(* Properties of the fingerprint.                                          *)
(***************************************************************************)
\* the value of row i of a column
RECURSIVE C19_RowAt(_, _)
C19_RowAt(runs, i) ==
  IF i <= Head(runs).n THEN Head(runs).value ELSE C19_RowAt(Tail(runs), i - Head(runs).n)

\* the sampled rows that hold a value
C19_Sampled(runs) ==
  {i \in 1..nrows : i <= LenRows(runs) /\ C19_RowAt(runs, i) # NaN}

\* C19: in every column's statistics is_categorical is false when
\* total_count <= 10 and otherwise true exactly when unique_count is less
\* than a tenth of total_count; total_count is the number of non-missing
\* values among the first 100 rows, and unique_count is at most total_count.
C19_CategoricalRule ==
  pc = "analyzed" =>
    \A col \in DOMAIN analysis.column_stats :
      \A st \in {analysis.column_stats[col]} :
        /\ st.total_count <= 10 => ~st.is_categorical
        /\ st.total_count > 10 => (st.is_categorical <=> 10 * st.unique_count < st.total_count)
        /\ st.total_count = Cardinality(C19_Sampled(csv[1]))
        /\ st.unique_count = Cardinality({C19_RowAt(csv[1], i) : i \in C19_Sampled(csv[1])})
        /\ st.unique_count <= st.total_count
        /\ st.total_count <= 100

\* a column of 101 rows, the last one with a second value: 100 rows are
\* sampled, one value is seen, and the column is categorical
C19_Witness ==
  /\ pc = "analyzed"
  /\ LenRows(csv[1]) = 101
  /\ DHID \in DOMAIN analysis.column_stats
  /\ analysis.column_stats[DHID].total_count = 100
  /\ analysis.column_stats[DHID].unique_count = 1
  /\ analysis.column_stats[DHID].is_categorical

(***************************************************************************)
(* Order of the inference calls.                                           *)
(***************************************************************************)
\* the local that holds the text of a stage
C20_TextOf(stage) == IF stage = 1 THEN result1_str ELSE result2_str

\* the files with a record in a list of records
C20_Recorded(rs) == {rs[k].file : k \in 1..Len(rs)}

\* an inference call is made: it is the next stage of its file, the text of
\* the stage before it is there (the answer of the call just made for the
\* same file, or that stage's sentinel), and every other file that was
\* called has its record
C20_CallInOrder ==
  Len(calls') = Len(calls) + 1 =>
    LET c == calls'[Len(calls')]
        earlier == {k \in 1..Len(calls) : calls[k].file = c.file}
    IN  /\ c.task.stage = Cardinality(earlier) + 1
        /\ c.task.stage \in 1..3
        /\ c.file \notin C20_Recorded(results)
        /\ c.task.stage > 1 =>
              /\ calls[Len(calls)].file = c.file
              /\ calls[Len(calls)].task.stage = c.task.stage - 1
              /\ C20_TextOf(c.task.stage - 1) \in
                    {calls[Len(calls)].out, Sentinel(c.task.stage - 1)}
        /\ \A k \in 1..Len(calls) :
              calls[k].file # c.file => calls[k].file \in C20_Recorded(results)

\* a record is appended: its file has had its three calls, classify, identify,
\* validate, once each and in this order, the last of them just now
C20_RecordAfterValidate ==
  Len(results') = Len(results) + 1 =>
    LET r == results'[Len(results')]
        own == {k \in 1..Len(calls') : calls'[k].file = r.file}
    IN  /\ Cardinality(own) = 3
        /\ \A k \in own : calls'[k].task.stage = Cardinality({j \in own : j <= k})
        /\ Len(calls') \in own
        /\ r.file \notin C20_Recorded(results)

\* the order of the calls and of the records, in every step of run_analysis_api
C20_Order ==
  [][entry = "run_analysis_api" => (C20_CallInOrder /\ C20_RecordAfterValidate)]_vars

\* when run_analysis_api has ended with the inference capability available,
\* every fingerprinted file has had each of its three calls exactly once
C20_EachStageOnce ==
  (entry = "run_analysis_api" /\ pc = "done" /\ llm_ok)
    => \A k \in 1..Len(Fingerprinted) : \A stage \in 1..3 :
          Cardinality(CallsOf(Fingerprinted[k], stage)) = 1

\* C20: in run_analysis_api the inference calls of every file are made in the
\* order classify, identify, validate, each exactly once and each after the
\* text of the stage before it is there; no call is made for a file before
\* the record of the file handled before it is appended, and a record is
\* appended only when the validate stage of its file has ended.
C20_StagesInOrder == C20_Order /\ []C20_EachStageOnce

(***************************************************************************)
(* Properties of the comment, the grades list and the slots of the parser. *)
(***************************************************************************)
\* the field kinds with the slots their line fills
C21_Kinds ==
  << [label |-> L_HOLE_NAME,   slots |-> {"hole_id"}],
     [label |-> L_COORDINATES, slots |-> {"coordinates"}],
     [label |-> L_GRADES,      slots |-> {"grades"}],
     [label |-> L_INTERVALS,   slots |-> {"from", "to"}],
     [label |-> L_DIP,         slots |-> {"dip"}],
     [label |-> L_AZIMUTH,     slots |-> {"azimuth"}],
     [label |-> L_DEPTH_AT,    slots |-> {"depth"}],
     [label |-> L_DENSITY,     slots |-> {"density"}],
     [label |-> L_LITHOLOGY,   slots |-> {"lithology"}] >>

\* where the first occurrence of a label starts in the text, 0 when the text
\* does not hold the label
C21_LabelAt(text, label) ==
  LET at == {i \in 1..Len(text) :
               /\ i + Len(label) - 1 <= Len(text)
               /\ UpperSeq(SubSeq(text, i, i + Len(label) - 1)) = label}
  IN  IF at = {} THEN 0 ELSE Min(at)

\* the line of the text that position i is on, from i to the line break
C21_LineFrom(text, i) ==
  SubSeq(text, i, Min({j \in i..(Len(text) + 1) : j = Len(text) + 1 \/ text[j] = NL}) - 1)

\* the line holds the delimiter ' - '
C21_HasDelimiter(line) ==
  \E k \in 1..(Len(line) - 2) : line[k] = SP /\ line[k + 1] = "-" /\ line[k + 2] = SP

\* C21: for every field kind, when the line that carries the label of the
\* kind holds no ' - ' delimiter, the comment of every slot of that kind is
\* empty, whatever the later lines of the text hold.
C21_NoDelimiterNoComment ==
  (pc = "parsed" /\ ret.kind = "columns")
    => \A k \in 1..Len(C21_Kinds) :
         \A at \in {C21_LabelAt(result2_str, C21_Kinds[k].label)} :
           (at > 0 /\ ~C21_HasDelimiter(C21_LineFrom(result2_str, at)))
             => \A slot \in C21_Kinds[k].slots : ret.value[slot].comment = <<>>

\* C22: for every list of column names the parser returns grades.found equal
\* to the list, both for the layout 'GRADE COLUMNS: [A, B, C]' and for the
\* layout 'GRADE COLUMNS: A, B, C'.
C22_BothLayoutsGiveTheList ==
  (pc = "parsed" /\ ret.kind = "columns")
    => \A names \in GradeLists(MaxGrades) \ {<<>>} : \A after \in AfterGrades :
         result2_str \in {BracketedGrades(names) \o after, BareGrades(names) \o after}
           => ret.value.grades.found = names

\* the ten slots of the parser's record
C23_Slots ==
  {"hole_id", "coordinates", "grades", "from", "to", "dip", "azimuth", "depth",
   "density", "lithology"}

\* C23: for every column text, the empty string included, the parser
\* returns a record with all ten slots; a kind that was not found keeps its
\* slot, with an absent value.
C23_AllTenSlots ==
  (pc = "parsed" /\ ret.kind = "columns")
    => /\ DOMAIN ret.value = C23_Slots
       /\ \A slot \in C23_Slots \ {"coordinates"} : "found" \in DOMAIN ret.value[slot]
       /\ {"x", "y", "z"} \subseteq DOMAIN ret.value.coordinates

(***************************************************************************)
(* Properties of the column-identification prompt.                         *)
(***************************************************************************)
\* the fixed order of the kinds, with the label of the line of each kind
\* (the catalog lists the grades under element_columns)
C24_FixedOrder ==
  << [kind |-> "hole_id",         line |-> L_HOLE_NAME],
     [kind |-> "dip",             line |-> L_DIP],
     [kind |-> "azimuth",         line |-> L_AZIMUTH],
     [kind |-> "depth",           line |-> L_DEPTH_AT],
     [kind |-> "coordinates",     line |-> L_COORDINATES],
     [kind |-> "element_columns", line |-> L_GRADES],
     [kind |-> "depth_intervals", line |-> L_INTERVALS],
     [kind |-> "lithology_code",  line |-> L_LITHOLOGY],
     [kind |-> "density",         line |-> L_DENSITY] >>

\* the kinds the catalog requires for the type the builder detected: those of
\* the catalog type with that name, none when the catalog has no such type
C24_Required ==
  IF task.detected_file_type = PyNone THEN {}
  ELSE UNION { heuristics.file_types[t] :
                 t \in {key \in DOMAIN heuristics.file_types :
                          UpperSeq(<<key>>) = UpperSeq(task.detected_file_type)} }

\* the place of a line in the fixed order
C24_Place(line) == CHOOSE k \in 1..Len(C24_FixedOrder) : C24_FixedOrder[k].line = line

C25_TextSurvivesBookkeeping ==
  entry = "run_analysis_api" =>
    \A k \in 1..Len(results) : \A stage \in {2, 3} :
      \A c \in CallsOf(results[k].file, stage) :
        calls[c].out # Raised => FieldOf(results[k], stage) = calls[c].out

(***************************************************************************)
(* The type of a file in the prompt builder and in the formatters.         *)
(***************************************************************************)
\* the catalog types whose required fields the column-identification prompt
\* asks for after a type text
C26_PromptTypes(text) ==
  {key \in DOMAIN heuristics.file_types :
     /\ Truthy(extract_file_type_from_result(text))
     /\ UpperSeq(<<key>>) = UpperSeq(extract_file_type_from_result(text))
     /\ get_required_columns_for_file_type(extract_file_type_from_result(text), heuristics)
          = heuristics.file_types[key]}

\* rows holds a field row labelled Hole ID, which every known type has
C26_HasHoleIdRow(rows) ==
  \E i \in 1..Len(rows) :
     rows[i].field = <<"Hole", SP, "ID">> /\ rows[i].found # OriginalColumn

\* C26: whenever the column-identification prompt asks for the required
\* fields of a known type T after a type text, both formatters report the
\* file under T with the field rows of T, and not as a type without fields.
C26_PromptAndFormatterAgree ==
  pc = "formatted" =>
    \A k \in 1..Len(results) : \A T \in C26_PromptTypes(results[k].type) :
       /\ FileTypeOf(results[k]) = <<T>>
       /\ get_relevant_fields_for_file_type(FileTypeOf(results[k])) = C11_Table[<<T>>]
       /\ C26_HasHoleIdRow(summary_json)
       /\ C26_HasHoleIdRow(summary)

(***************************************************************************)
(* A grades line that reports no column.                                   *)
(***************************************************************************)
\* rows holds a Grades row, or a row that shows the word NOT or FOUND as a
\* column
C27_ShowsGrades(rows) ==
  \E i \in 1..Len(rows) :
     \/ rows[i].field = <<"Grades">>
     \/ rows[i].found \in {<<"NOT">>, <<"FOUND">>}

\* C27: for an Assay file whose column text is 'GRADE COLUMNS: NOT FOUND'
\* the parser returns an empty grades list and neither formatter emits a
\* Grades row; NOT and FOUND are not reported as grade columns.
C27_GradesNotFoundShowsNoGrades ==
  pc = "formatted" =>
    \A k \in 1..Len(results) :
       (/\ results[k].columns = L_GRADES \o <<SP, "NOT", SP, "FOUND">>
        /\ FileTypeOf(results[k]) = <<"Assay">>)
         => /\ ParsedOf(results[k]).grades.found = <<>>
            /\ ~C27_ShowsGrades(summary_json)
            /\ ~C27_ShowsGrades(summary)

(***************************************************************************)
(* A failed classify stage in the summary.                                 *)
(***************************************************************************)
\* the files whose classify call raised
C28_FailedClassify ==
  {calls[c].file : c \in {k \in 1..Len(calls) : calls[k].task.stage = 1 /\ calls[k].out = Raised}}

\* the rows a file's record is reported with: all of type Unknown, none a
\* field row, and one '(original column)' row for each column
C28_ReportedAsUnknown(rows, columns) ==
  /\ \A i \in 1..Len(rows) :
        rows[i].file_type = <<"Unknown">> /\ rows[i].found = OriginalColumn
  /\ \A c \in Range(columns) : Cardinality({i \in 1..Len(rows) : rows[i].field = c}) = 1
  /\ Len(rows) = Cardinality(Range(columns))

\* C28: when run_analysis_api has ended, every file whose classify call
\* raised is reported by the summary of the returned records, with type
\* Unknown, no field row and exactly one '(original column)' row for each
\* column of its fingerprint, whatever its column text holds.
C28_SentinelIsUnknown ==
  (pc = "done" /\ entry = "run_analysis_api") =>
    \A f \in C28_FailedClassify :
      /\ \E k \in 1..Len(Returned) : Returned[k].file = f
      /\ \A k \in 1..Len(Returned) :
            Returned[k].file = f =>
              C28_ReportedAsUnknown(
                JsonRowsOfRecord(Returned[k], AnalysesFromResults(Returned)),
                all_analyses[f].columns)

(***************************************************************************)
(* The /analyze handler of api.py.                                         *)
(***************************************************************************)
MaxUploads == 3

\* the file parts of a request: a name and whether file.save() succeeds
Uploads == [filename : {"", "collar.csv", "notes.txt"}, saves : BOOLEAN]

\* request.files: whether the 'files' key is present, and its parts
Requests ==
  {[has_files |-> FALSE, uploads |-> <<>>]}
    \cup {[has_files |-> TRUE, uploads |-> u] :
            u \in UNION {[1..n -> Uploads] : n \in 0..MaxUploads}}

\* str.endswith('.csv') on the names of Uploads
EndsWithCsv(filename) == filename = "collar.csv"

\* crewai_test.py line 1459: def run_analysis_api(data_dir)
run_analysis_api_params == <<"data_dir">>

\* Python's binding of a call to a parameter list without defaults: every
\* keyword names a parameter that no positional argument has filled, and
\* every parameter is given
Accepts(params, positional, keywords) ==
  /\ positional <= Len(params)
  /\ keywords \subseteq Range(params)
  /\ \A i \in 1..Len(params) :
        IF i <= positional THEN params[i] \notin keywords ELSE params[i] \in keywords

\* what run_analysis_api gives back to a caller it has accepted
PipelineReturns ==
  {[kind |-> "exception", exc |-> "UnboundLocalError"], [kind |-> "list", value |-> <<>>]}
    \cup {[kind |-> "list", value |-> <<r>>] : r \in RelRecords}

Response(code, body) == [kind |-> "response", code |-> code, body |-> body]

InitAnalyze ==
  /\ entry = "analyze"
  /\ heuristics = HeuristicsCatalog
  /\ llm_ok = TRUE
  /\ csv = <<>>
  /\ pc = "request"
  /\ files \in Requests
  /\ idx = 0
  /\ analysis = NoAnalysis
  /\ task = NoTask
  /\ all_analyses = EmptyDict
  /\ common_columns = EmptyDict
  /\ results = <<>>
  /\ result1 = Unbound /\ result1_str = Unbound
  /\ result2 = Unbound /\ result2_str = Unbound
  /\ result3 = Unbound /\ result3_str = Unbound
  /\ calls = <<>>
  /\ ret = Pending
  /\ summary = <<>>
  /\ summary_json = <<>>

\* api.py lines 118-125: the two checks on request.files
CheckRequest ==
  /\ pc = "request"
  /\ IF ~files.has_files
     THEN /\ ret' = Response(400, [error |-> "No files provided"])
          /\ pc' = "responded" /\ idx' = idx
     ELSE IF files.uploads = <<>> \/ files.uploads[1].filename = ""
     THEN /\ ret' = Response(400, [error |-> "No files selected"])
          /\ pc' = "responded" /\ idx' = idx
     ELSE /\ pc' = "save" /\ idx' = 1 /\ ret' = ret
  /\ UNCHANGED <<entry, heuristics, llm_ok, csv, files, analysis, task,
                 all_analyses, common_columns, results, locals, calls, summary,
                 summary_json>>

\* api.py lines 134-147: one turn of the loop that saves the .csv parts; csv
\* holds saved_files
SaveFile ==
  /\ pc = "save" /\ idx <= Len(files.uploads)
  /\ IF ~EndsWithCsv(files.uploads[idx].filename)
     THEN /\ idx' = idx + 1 /\ UNCHANGED <<csv, ret, pc>>
     ELSE IF files.uploads[idx].saves
     THEN /\ csv' = Append(csv, files.uploads[idx].filename)
          /\ idx' = idx + 1 /\ UNCHANGED <<ret, pc>>
     ELSE /\ ret' = Response(400, [error |-> "Error saving file", type |-> "OSError"])
          /\ pc' = "responded" /\ UNCHANGED <<csv, idx>>
  /\ UNCHANGED <<entry, heuristics, llm_ok, files, analysis, task,
                 all_analyses, common_columns, results, locals, calls, summary,
                 summary_json>>

\* api.py lines 149-211: the call of the pipeline with one positional
\* argument and the keywords session_id and logger (line 156), and the
\* response built from what it returns
RunAnalysis ==
  /\ pc = "save" /\ idx > Len(files.uploads)
  /\ pc' = "responded"
  /\ IF csv = <<>>
     THEN /\ ret' = Response(400, [error |-> "No CSV files were saved"])
          /\ UNCHANGED <<results, summary_json>>
     ELSE IF ~Accepts(run_analysis_api_params, 1, {"session_id", "logger"})
     THEN /\ ret' = Response(500, [error |-> "Error during analysis", type |-> "TypeError"])
          /\ UNCHANGED <<results, summary_json>>
     ELSE \E out \in PipelineReturns :
            IF out.kind = "exception"
            THEN /\ ret' = Response(500, [error |-> "Error during analysis", type |-> out.exc])
                 /\ UNCHANGED <<results, summary_json>>
            ELSE IF out.value = <<>>
            THEN /\ ret' = Response(400, [error |-> "No files processed - analysis returned empty results"])
                 /\ results' = out.value /\ UNCHANGED summary_json
            ELSE /\ results' = out.value
                 /\ summary_json' = format_consolidated_summary_json(out.value, AnalysesFromResults(out.value))
                 /\ ret' = Response(200, [status |-> "success", results |-> summary_json',
                                          files_processed |-> Len(out.value)])
  /\ UNCHANGED <<entry, heuristics, llm_ok, csv, files, idx, analysis, task,
                 all_analyses, common_columns, locals, calls, summary>>

NextAnalyze == CheckRequest \/ SaveFile \/ RunAnalysis

SpecAnalyze == InitAnalyze /\ [][NextAnalyze]_vars

\* the request carries a .csv part, its first part has a name, and every
\* .csv part can be saved
C29_CarriesCsv ==
  /\ files.has_files
  /\ \E i \in 1..Len(files.uploads) : EndsWithCsv(files.uploads[i].filename)
  /\ files.uploads[1].filename # ""
  /\ \A i \in 1..Len(files.uploads) : files.uploads[i].saves

\* C29: a POST to /analyze that carries a .csv file reaches the pipeline: the
\* call of run_analysis_api is accepted by its parameter list, the handler
\* does not answer with the 500 response, and when the pipeline has
\* returned records the answer has status 'success' and the summary rows.
C29_RequestReachesPipeline ==
  (entry = "analyze" /\ pc = "responded" /\ C29_CarriesCsv) =>
     /\ Accepts(run_analysis_api_params, 1, {"session_id", "logger"})
     /\ ret.code # 500
     /\ results # <<>> =>
          /\ ret.code = 200 /\ ret.body.status = "success"
          /\ ret.body.results = summary_json

(***************************************************************************)
(* token_tracker.py: add_usage calls served at the same time.  Here        *)
(* results holds every content the statistics file has had, oldest first,  *)
(* calls the arguments of each call, task each call's local stats, and pc  *)
(* and ret each call's position and return value.                          *)
(***************************************************************************)
MaxCallers == 2
MaxTokens == 2
KeepRequests == 100

Callers == 1..MaxCallers
TokenCounts == 1..MaxTokens

\* lines 10-13: the prices of gpt-3.5-turbo per 1000 tokens, in 1/10000 dollar
PRICING == [input |-> 5, output |-> 15]

\* lines 71-79, in 1/10000000 dollar
calculate_cost(input_tokens, output_tokens) ==
  input_tokens * PRICING.input + output_tokens * PRICING.output

\* lines 50-58, without the two fields the calls overwrite with constants
\* or with the clock (model, last_updated)
DefaultStats ==
  [total_input_tokens |-> 0, total_output_tokens |-> 0, total_requests |-> 0,
   total_cost |-> 0, requests |-> <<>>]

Missing == [missing |-> TRUE]

\* lines 99-106
RequestEntry(input_tokens, output_tokens) ==
  [input_tokens |-> input_tokens, output_tokens |-> output_tokens,
   total_tokens |-> input_tokens + output_tokens,
   cost |-> calculate_cost(input_tokens, output_tokens)]

\* what the statistics file holds before the calls: nothing, or the totals
\* of earlier requests
StoredStats ==
  {Missing} \cup
  {[total_input_tokens |-> n * i, total_output_tokens |-> n * o, total_requests |-> n,
    total_cost |-> n * calculate_cost(i, o),
    requests |-> [k \in 1..n |-> RequestEntry(i, o)]] :
      n \in 0..MaxCallers, i \in TokenCounts, o \in TokenCounts}

\* lines 40-58
load_stats(content) == IF content = Missing THEN DefaultStats ELSE content

\* the content of the statistics file
StatsFile == results[Len(results)]

\* lines 86-113: the update of the loaded stats
Updated(stats, input_tokens, output_tokens) ==
  [total_input_tokens |-> stats.total_input_tokens + input_tokens,
   total_output_tokens |-> stats.total_output_tokens + output_tokens,
   total_requests |-> stats.total_requests + 1,
   total_cost |-> stats.total_cost + calculate_cost(input_tokens, output_tokens),
   requests |->
     IF Len(stats.requests) + 1 > KeepRequests
     THEN SubSeq(Append(stats.requests, RequestEntry(input_tokens, output_tokens)),
                 Len(stats.requests) + 2 - KeepRequests, Len(stats.requests) + 1)
     ELSE Append(stats.requests, RequestEntry(input_tokens, output_tokens))]

InitUsage ==
  /\ entry = "add_usage"
  /\ heuristics = HeuristicsCatalog
  /\ llm_ok = TRUE
  /\ csv = <<>>
  /\ pc = [p \in Callers |-> "load"]
  /\ files = <<>>
  /\ idx = 0
  /\ analysis = NoAnalysis
  /\ task = [p \in Callers |-> Missing]
  /\ all_analyses = EmptyDict
  /\ common_columns = EmptyDict
  /\ results \in {<<content>> : content \in StoredStats}
  /\ result1 = Unbound /\ result1_str = Unbound
  /\ result2 = Unbound /\ result2_str = Unbound
  /\ result3 = Unbound /\ result3_str = Unbound
  /\ calls \in [Callers -> [input_tokens : TokenCounts, output_tokens : TokenCounts]]
  /\ ret = [p \in Callers |-> Pending]
  /\ summary = <<>>
  /\ summary_json = <<>>

\* line 83: stats = load_stats()
LoadStats(p) ==
  /\ pc[p] = "load"
  /\ task' = [task EXCEPT ![p] = load_stats(StatsFile)]
  /\ pc' = [pc EXCEPT ![p] = "update"]
  /\ UNCHANGED <<entry, heuristics, llm_ok, csv, files, idx, analysis,
                 all_analyses, common_columns, results, locals, calls, ret, summary,
                 summary_json>>

\* lines 86-113
UpdateStats(p) ==
  /\ pc[p] = "update"
  /\ task' = [task EXCEPT ![p] = Updated(task[p], calls[p].input_tokens, calls[p].output_tokens)]
  /\ pc' = [pc EXCEPT ![p] = "save"]
  /\ UNCHANGED <<entry, heuristics, llm_ok, csv, files, idx, analysis,
                 all_analyses, common_columns, results, locals, calls, ret, summary,
                 summary_json>>

\* lines 115-116 with save_stats, lines 60-69
SaveStats(p) ==
  /\ pc[p] = "save"
  /\ results' = Append(results, task[p])
  /\ ret' = [ret EXCEPT ![p] = task[p]]
  /\ pc' = [pc EXCEPT ![p] = "done"]
  /\ UNCHANGED <<entry, heuristics, llm_ok, csv, files, idx, analysis, task,
                 all_analyses, common_columns, locals, calls, summary,
                 summary_json>>

NextUsage == \E p \in Callers : LoadStats(p) \/ UpdateStats(p) \/ SaveStats(p)

SpecUsage == InitUsage /\ [][NextUsage]_vars

RECURSIVE C30_Sum(_, _, _)
C30_Sum(args, field, n) ==
  IF n = 0 THEN 0 ELSE args[n][field] + C30_Sum(args, field, n - 1)

\* C30: when every one of the concurrent add_usage calls has completed, the
\* persisted statistics have total_requests increased by the number of
\* calls and the input and output token totals increased by the sums over
\* the calls, whatever the order of their load, update and save steps.
C30_NoUpdateLost ==
  (entry = "add_usage" /\ \A p \in Callers : pc[p] = "done") =>
    /\ StatsFile.total_requests = load_stats(results[1]).total_requests + MaxCallers
    /\ StatsFile.total_input_tokens =
         load_stats(results[1]).total_input_tokens + C30_Sum(calls, "input_tokens", MaxCallers)
    /\ StatsFile.total_output_tokens =
         load_stats(results[1]).total_output_tokens + C30_Sum(calls, "output_tokens", MaxCallers)

====
